---- MODULE Spec2Model ----
(***************************************************************************)
(* Model of the crawl / extract / dedupe pipeline of app.py.               *)
(*                                                                         *)
(* The run block (the handler of the start button) is modelled as a state  *)
(* machine whose position is pc.  Its specifications are:                  *)
(*   SpecCrawl   - configuration checks and the listing crawl (stage 1),   *)
(*                 with the GETs of fetch_html as steps;                   *)
(*   SpecExtract - the article loop, the LLM calls with their retry loop,  *)
(*                 the merge with the JSON-LD location and the dedup step  *)
(*                 (stage 2), started from the lists stage 1 can hand over;*)
(*   SpecRun     - both stages in one run, for one small configuration.    *)
(* Functions are also run on their own:                                    *)
(*   SpecChunk   - split_text_into_chunks;                                 *)
(*   SpecJson    - safe_json_parse;                                        *)
(*   SpecNorm    - normalize_string;                                       *)
(*   SpecDate    - normalize_date;                                         *)
(*   SpecFilter  - is_article_url and the test of the article loop;        *)
(*   SpecNext    - find_next_page_url.                                     *)
(* Strings are sequences of characters, URLs are records of a network      *)
(* location and a path, both sequences of tokens.                          *)
(***************************************************************************)
EXTENDS Integers, Sequences, FiniteSets, TLC

VARIABLES
    \* configuration of the run (sidebar widgets, secrets)
    api_key, targets, max_pages, link_limit_per_page, max_articles_total,
    \* position of the run block and the status line it shows
    pc, status,
    \* stage 1: listing crawl
    ti, page_num, current_url, collected, collected_seen, visited_listing,
    \* history of stage 1: every fetch_html call on a listing page, every link
    \* returned by extract_article_links_from_listing, in order
    listing_fetches, discovered,
    \* fetch_html, the call at hand: where it stands, its loop variable, the
    \* number of GETs it has issued, the response of its last GET, the last
    \* sleep, whether a GET was answered 200 with a body, and the value returned
    fetch_state, fetch_attempt, fetch_gets, last_resp, last_wait, fetch_ok, html,
    \* stage 2: article loop
    existing_fingerprints, run_fingerprints, extracted_all,
    skipped_duplicate_csv, skipped_duplicate_run, failed_articles,
    non_article_skipped, short_text_skipped, gemini_error_counter,
    ai, article_loc, chunks, attempt, all_items, items,
    \* history of stage 2, per chunk: the number of calls made for the chunk
    \* last worked on and the outcome of the last one, the sleeps between them,
    \* the error counter and the number of items when its first call began, and
    \* whether the chunk is finished
    chunk_calls, last_call, backoff_waits, errors_before, items_before, chunk_done,
    \* the chunk handed to the LLM client in the last call, and whether a call was
    \* made in the run and time.sleep(sleep_sec) has run since the last one
    sent, since_call,
    \* the number of list elements the LLM client has returned in the run
    answered,
    \* the number of articles handed to ai_extract_events_from_text in the run
    llm_articles,
    \* history of stage 2, per fingerprint in order of first offer: the first
    \* item offered to the dedup step, the number of offers and the article of
    \* the last one
    offered,
    \* split_text_into_chunks run on its own: the length of the text, the
    \* arguments, the loop variable, the chunks yielded and the position
    split_n, split_size, split_overlap, split_start, split_out, split_pc,
    \* safe_json_parse run on its own: the argument, the result, the position
    json_str, json_out, json_pc,
    \* normalize_string run on its own: a value and a second one that differs
    \* from it in ignored characters and letter case only, their keys, the key
    \* of the first key, and the position
    norm_x, norm_y, norm_kx, norm_ky, norm_kk, norm_pc,
    \* normalize_date run on its own: the argument, the local t, the result and
    \* the position
    date_text, date_t, date_out, date_pc,
    \* is_article_url and the test of the article loop that calls it, run on
    \* their own: the arguments, the value returned and the position
    filter_url, filter_rule, filter_out, filter_pc,
    \* find_next_page_url run on its own: the arguments, the value returned and
    \* the position
    next_soup, next_cur, next_rule, next_out, next_pc

cfgVars == <<api_key, targets, max_pages, link_limit_per_page, max_articles_total>>
crawlVars == <<ti, page_num, current_url, collected_seen, visited_listing,
               listing_fetches, discovered>>
dedupVars == <<run_fingerprints, extracted_all, skipped_duplicate_csv,
               skipped_duplicate_run, offered>>
countVars == <<failed_articles, non_article_skipped, short_text_skipped, llm_articles>>
llmVars == <<chunks, attempt, all_items, gemini_error_counter,
             chunk_calls, last_call, backoff_waits, errors_before, items_before,
             chunk_done, sent>>
extractVars == <<dedupVars, countVars, llmVars, ai, article_loc, items, answered,
                 since_call>>
fetchVars == <<fetch_state, fetch_attempt, fetch_gets, last_resp, last_wait, fetch_ok>>
splitVars == <<split_n, split_size, split_overlap, split_start, split_out, split_pc>>
jsonVars == <<json_str, json_out, json_pc>>
normVars == <<norm_x, norm_y, norm_kx, norm_ky, norm_kk, norm_pc>>
dateVars == <<date_text, date_t, date_out, date_pc>>
filterVars == <<filter_url, filter_rule, filter_out, filter_pc>>
nextVars == <<next_soup, next_cur, next_rule, next_out, next_pc>>
utilVars == <<normVars, dateVars, filterVars, nextVars>>
libVars == <<splitVars, jsonVars, utilVars>>
runVars == <<cfgVars, pc, status, crawlVars, collected, existing_fingerprints,
             extractVars, fetchVars, html>>
vars == <<runVars, libVars>>

(***************************************************************************)
(* Bounds of the model.                                                    *)
(***************************************************************************)
MaxPagesBound == 2
MaxArticlesBound == 3
LinkLimitBound == 2

(***************************************************************************)
(* Sequences.                                                              *)
(***************************************************************************)
Range(s) == {s[i] : i \in 1..Len(s)}

IsPrefix(p, s) == Len(p) <= Len(s) /\ SubSeq(s, 1, Len(p)) = p

Take(s, n) == SubSeq(s, 1, IF n < Len(s) THEN n ELSE Len(s))

(***************************************************************************)
(* URLs and site rules.                                                    *)
(***************************************************************************)
NoUrl == [netloc |-> <<>>, path |-> <<>>]

Url(netloc, path) == [netloc |-> netloc, path |-> path]

PrtimesNetloc == <<"prtimes.jp">>
AtpressNetloc == <<"www.", "atpress.ne.jp">>
OtherNetloc == <<"example.com">>

SITE_RULES ==
    << [name |-> "PRTIMES", match_netloc |-> "prtimes.jp",
        article_path_allow |-> <<"/main/html/rd/p/">>,
        listing_next_hint_tokens |-> {"next_ja", "Next", "NEXT", "More", "MORE"},
        deny_path_prefixes |-> {<<"/ranking">>, <<"/company">>, <<"/categories">>,
                                <<"/category">>, <<"/tag">>, <<"/gourmet">>,
                                <<"/entertainment">>, <<"/topics">>}],
       [name |-> "AtPress", match_netloc |-> "atpress.ne.jp",
        article_path_allow |-> <<"/news/", "digits">>,
        listing_next_hint_tokens |-> {"next_ja", "Next", "NEXT", "More", "MORE"},
        deny_path_prefixes |-> {<<"/ranking">>, <<"/tag">>, <<"/category">>,
                                <<"/categories">>, <<"/login">>, <<"/signup">>,
                                <<"/account">>}] >>

NoRule == [name |-> "none"]

\* get_site_rule: the first rule whose match_netloc occurs in the netloc
get_site_rule(url) ==
    LET hits == {i \in 1..Len(SITE_RULES) :
                    SITE_RULES[i].match_netloc \in Range(url.netloc)}
    IN IF hits = {} THEN NoRule
       ELSE SITE_RULES[CHOOSE i \in hits : \A j \in hits : i <= j]

\* str.lower() of a path: of the path segments of the model, one is written
\* in capitals
LowerPath(path) ==
    [i \in 1..Len(path) |-> IF path[i] = "/RANKING" THEN "/ranking" ELSE path[i]]

\* the filter reduced to its deny list
is_article_url_deny_only(url, rule) ==
    IF rule = NoRule THEN TRUE
    ELSE ~\E p \in rule.deny_path_prefixes : IsPrefix(p, LowerPath(url.path))

\* is_article_url: no rule accepts everything; a deny prefix of the path in
\* lower case rejects; otherwise the path must match the rule's pattern (both
\* patterns are anchored at ^)
is_article_url(url, rule) ==
    IF rule = NoRule THEN TRUE
    ELSE IF \E p \in rule.deny_path_prefixes : IsPrefix(p, LowerPath(url.path)) THEN FALSE
    ELSE IsPrefix(rule.article_path_allow, url.path)

(***************************************************************************)
(* Hrefs of a parsed page.  kind "abs" is an absolute URL, "rel" a         *)
(* root-relative one, "frag" starts with #, "js" with javascript:, "empty" *)
(* is the empty string, "none" a missing element or attribute.             *)
(***************************************************************************)
Href(kind, netloc, path) == [kind |-> kind, netloc |-> netloc, path |-> path]

NoHref == Href("none", <<>>, <<>>)

is_valid_href(href) == href.kind \notin {"none", "empty", "frag", "js"}

urljoin(base, href) ==
    IF href.kind = "abs" THEN Url(href.netloc, href.path)
    ELSE Url(base.netloc, href.path)

\* the guard against off-site URLs left out
same_domain_any(url_a, url_b) == TRUE

same_domain(url_a, url_b) == url_a.netloc = url_b.netloc

DefaultHintTokens == {"next_ja", "Next", "More"}

RECURSIVE FirstHintedAnchor(_, _, _, _)
\* third strategy of find_next_page_url: anchors in document order
FirstHintedAnchor(anchors, k, cur, tokens) ==
    IF k > Len(anchors) THEN NoUrl
    ELSE LET a == anchors[k]
             joined == urljoin(cur, a.href)
         IN IF /\ a.href.kind # "none"
               /\ a.text \in tokens
               /\ is_valid_href(a.href)
               /\ same_domain(joined, cur)
            THEN joined
            ELSE FirstHintedAnchor(anchors, k + 1, cur, tokens)

\* find_next_page_url; NoUrl stands for None
find_next_page_url(soup, cur, rule) ==
    LET j1 == urljoin(cur, soup.link_next)
        j2 == urljoin(cur, soup.a_next)
        tokens == IF rule = NoRule THEN DefaultHintTokens
                  ELSE rule.listing_next_hint_tokens
    IN IF is_valid_href(soup.link_next) /\ same_domain(j1, cur) THEN j1
       ELSE IF is_valid_href(soup.a_next) /\ same_domain(j2, cur) THEN j2
       ELSE FirstHintedAnchor(soup.anchors, 1, cur, tokens)

RECURSIVE LinksFrom(_, _, _, _, _, _)
\* loop of extract_article_links_from_listing over the anchors, out and seen
\* carried along; the limit is tested after each anchor that was not skipped
LinksFrom(anchors, k, cur, rule, link_limit, out) ==
    IF k > Len(anchors) THEN out
    ELSE LET href == anchors[k].href
             url == urljoin(cur, href)
         IN IF \/ ~is_valid_href(href)
               \/ url.netloc # cur.netloc
               \/ ~is_article_url(url, rule)
            THEN LinksFrom(anchors, k + 1, cur, rule, link_limit, out)
            ELSE LET out2 == IF url \in Range(out) THEN out ELSE Append(out, url)
                 IN IF Len(out2) >= link_limit THEN out2
                    ELSE LinksFrom(anchors, k + 1, cur, rule, link_limit, out2)

extract_article_links_from_listing(soup, cur, rule, link_limit) ==
    LinksFrom(soup.anchors, 1, cur, rule, link_limit, <<>>)

(***************************************************************************)
(* The pages the listing fetches can return.  Paths L1..L3 are listing     *)
(* pages, A1..A4 match the PRTIMES article pattern, Denied matches it      *)
(* behind a deny prefix.                                                   *)
(***************************************************************************)
L1 == <<"/gourmet", "/">>
L2 == <<"/gourmet", "/", "?page=2">>
L3 == <<"/entertainment", "/">>
A1 == <<"/main/html/rd/p/", "1">>
A2 == <<"/main/html/rd/p/", "2">>
A3 == <<"/main/html/rd/p/", "3">>
A4 == <<"/main/html/rd/p/", "4">>
Denied == <<"/ranking", "/main/html/rd/p/", "1">>

Rel(path) == Href("rel", <<>>, path)

\* an anchor with its href, its visible text and its class attribute
ClassAnchor(href, text, cls) == [href |-> href, text |-> text, class |-> cls]

Anchor(href, text) == ClassAnchor(href, text, "")

Soups ==
    { \* <link rel=next> to page 2, two articles and a ranking link
      [link_next |-> Rel(L2), a_next |-> NoHref,
       anchors |-> <<Anchor(Rel(A1), ""), Anchor(Rel(Denied), ""), Anchor(Rel(A2), "")>>],
      \* <a rel=next> back to the first page, one known and one new article
      [link_next |-> NoHref, a_next |-> Rel(L1),
       anchors |-> <<Anchor(Rel(A2), ""), Anchor(Rel(A3), "")>>],
      \* a "Next" anchor to another listing, an article linked twice
      [link_next |-> NoHref, a_next |-> NoHref,
       anchors |-> <<Anchor(Rel(A1), ""), Anchor(Rel(A1), ""), Anchor(Rel(L3), "Next"),
                     Anchor(Rel(A4), "")>>],
      \* only off-site and unusable links
      [link_next |-> Href("abs", OtherNetloc, L2), a_next |-> Href("js", <<>>, <<>>),
       anchors |-> <<Anchor(Href("abs", AtpressNetloc, A1), ""),
                     Anchor(Href("frag", <<>>, <<>>), "Next")>>],
      \* no article at all, a next page
      [link_next |-> Rel(L2), a_next |-> NoHref, anchors |-> <<>>] }

Target(url, label) == [url |-> url, label |-> label]

\* the target lists the sidebar can produce (presets first, then custom URLs)
RawTargetLists ==
    { <<>>,
      <<Target(Url(PrtimesNetloc, L1), "PRTIMES (gourmet)")>>,
      <<Target(Url(PrtimesNetloc, L1), "PRTIMES (gourmet)"),
        Target(Url(PrtimesNetloc, L3), "PRTIMES (entertainment)")>>,
      <<Target(Url(PrtimesNetloc, L1), "PRTIMES (gourmet)"),
        Target(Url(OtherNetloc, L1), "custom (example.com)")>>,
      <<Target(Url(PrtimesNetloc, L1), "PRTIMES (gourmet)"),
        Target(Url(OtherNetloc, L1), "custom (example.com)"),
        Target(Url(PrtimesNetloc, L1), "custom (prtimes.jp)")>> }

RECURSIVE UniqueTargets(_, _)
\* {t["url"]: t for t in targets}: a URL keeps the place of its first target
\* and the label of its last one
UniqueTargets(raw, acc) ==
    IF raw = <<>> THEN acc
    ELSE LET t == Head(raw)
             hit == {i \in 1..Len(acc) : acc[i].url = t.url}
         IN UniqueTargets(Tail(raw),
                IF hit = {} THEN Append(acc, t)
                ELSE [i \in 1..Len(acc) |-> IF i \in hit THEN t ELSE acc[i]])

(***************************************************************************)
(* fetch_html.  A response is what session.get gives: a status code with a *)
(* text, or a requests.RequestException raised.  Sleeps are counted in     *)
(* tenths of a second.                                                     *)
(***************************************************************************)
FetchMaxRetries == 2
StatusWaitStep == 12
ExceptionWaitStep == 10

\* None, the empty string, and the response of a call that has issued no GET
NoHtml == [none |-> TRUE]
EmptyText == [empty |-> TRUE]
NoResp == [raised |-> FALSE, status |-> 0, text |-> EmptyText]

Resp(code, text) == [raised |-> FALSE, status |-> code, text |-> text]
RequestException == [raised |-> TRUE, status |-> 0, text |-> EmptyText]

RetryStatuses == {429, 503}

\* a status 200 with a non-empty text
HasBody(resp) == ~resp.raised /\ resp.status = 200 /\ resp.text # EmptyText

\* every status other than 200 retried
FetchVerdictRetryAll(resp, att) ==
    IF resp.raised
    THEN (IF att < FetchMaxRetries THEN "retry" ELSE "none")
    ELSE IF HasBody(resp) THEN "body"
    ELSE IF resp.status # 200 /\ att < FetchMaxRetries THEN "retry"
    ELSE "none"

\* the text of a status 200 returned without the test for emptiness
FetchVerdictAnyText(resp, att) ==
    IF resp.raised
    THEN (IF att < FetchMaxRetries THEN "retry" ELSE "none")
    ELSE IF resp.status = 200 THEN "body"
    ELSE IF resp.status \in RetryStatuses /\ att < FetchMaxRetries THEN "retry"
    ELSE "none"

\* the body of the loop of fetch_html on one response: return the text
\* ("body"), sleep and continue ("retry"), or return None ("none")
FetchVerdict(resp, att) ==
    IF resp.raised
    THEN (IF att < FetchMaxRetries THEN "retry" ELSE "none")
    ELSE IF HasBody(resp) THEN "body"
    ELSE IF resp.status \in RetryStatuses /\ att < FetchMaxRetries THEN "retry"
    ELSE "none"

\* the argument of time.sleep before the next attempt
FetchWait(resp, att) ==
    IF resp.raised THEN ExceptionWaitStep * (att + 1) ELSE StatusWaitStep * (att + 1)

\* "if not html" of the callers
Falsy(h) == h \in {NoHtml, EmptyText}

IdleFetch ==
    /\ fetch_state = "idle"
    /\ fetch_attempt = 0
    /\ fetch_gets = 0
    /\ last_resp = NoResp
    /\ last_wait = 0
    /\ fetch_ok = FALSE

\* split_text_into_chunks is not running on its own
IdleSplit ==
    /\ split_n = 0
    /\ split_size = 1
    /\ split_overlap = 0
    /\ split_start = 0
    /\ split_out = <<>>
    /\ split_pc = "idle"

\* safe_json_parse is not running on its own
IdleJson ==
    /\ json_str = <<>>
    /\ json_out = <<>>
    /\ json_pc = "idle"

\* normalize_string is not running on its own
IdleNorm ==
    /\ norm_x = <<>>
    /\ norm_y = <<>>
    /\ norm_kx = <<>>
    /\ norm_ky = <<>>
    /\ norm_kk = <<>>
    /\ norm_pc = "idle"

\* normalize_date is not running on its own
IdleDate ==
    /\ date_text = <<>>
    /\ date_t = <<>>
    /\ date_out = <<>>
    /\ date_pc = "idle"

\* is_article_url is not running on its own
IdleFilter ==
    /\ filter_url = NoUrl
    /\ filter_rule = NoRule
    /\ filter_out = FALSE
    /\ filter_pc = "idle"

\* find_next_page_url is not running on its own
IdleNext ==
    /\ next_soup = [link_next |-> NoHref, a_next |-> NoHref, anchors |-> <<>>]
    /\ next_cur = NoUrl
    /\ next_rule = NoRule
    /\ next_out = NoUrl
    /\ next_pc = "idle"

IdleUtil == IdleNorm /\ IdleDate /\ IdleFilter /\ IdleNext

IdleLib == IdleSplit /\ IdleJson /\ IdleUtil

\* the locals of a call of fetch_html are gone once the caller has branched on
\* the value returned
ForgetFetch ==
    /\ fetch_state' = "idle"
    /\ fetch_attempt' = 0
    /\ fetch_gets' = 0
    /\ last_resp' = NoResp
    /\ last_wait' = 0
    /\ fetch_ok' = FALSE
    /\ html' = NoHtml

\* one iteration of the loop of fetch_html: a GET and the handling of its
\* response
FetchGet(resp) ==
    /\ fetch_state = "running"
    /\ fetch_attempt <= FetchMaxRetries
    /\ fetch_gets' = fetch_gets + 1
    /\ last_resp' = resp
    /\ fetch_ok' = (fetch_ok \/ HasBody(resp))
    /\ LET verdict == FetchVerdict(resp, fetch_attempt)
       IN IF verdict = "retry"
          THEN /\ last_wait' = FetchWait(resp, fetch_attempt)
               /\ fetch_attempt' = fetch_attempt + 1
               /\ UNCHANGED <<fetch_state, html>>
          ELSE /\ fetch_state' = "returned"
               /\ html' = IF verdict = "body" THEN resp.text ELSE NoHtml
               /\ UNCHANGED <<fetch_attempt, last_wait>>

(***************************************************************************)
(* Stage 1: the listing crawl.                                             *)
(***************************************************************************)
\* the cycle guard left out
AlreadyVisitedNever(url, visited) == FALSE

\* cycle guard of the page loop
AlreadyVisited(url, visited) == url \in visited

\* the cap tested with > in place of >=
CapReachedStrict(coll, cap) == Len(coll) > cap

\* the global article cap, tested after each page and after each target
CapReached(coll, cap) == Len(coll) >= cap

\* the page loop running one iteration too many
MorePagesOffByOne(p, maxp) == p <= maxp

\* for page_num in range(1, max_pages + 1): whether another iteration follows
MorePages(p, maxp) == p < maxp

RECURSIVE AddLinksUnseen(_, _, _, _)
\* the add loop without its test against collected_seen
AddLinksUnseen(links, label, coll, seen) ==
    IF links = <<>> THEN [collected |-> coll, collected_seen |-> seen]
    ELSE AddLinksUnseen(Tail(links), label, Append(coll, <<Head(links), label>>),
                        seen \cup {Head(links)})

RECURSIVE AddLinks(_, _, _, _)
\* the add loop: a link not yet in collected_seen is appended with the label
\* of the target at hand
AddLinks(links, label, coll, seen) ==
    IF links = <<>> THEN [collected |-> coll, collected_seen |-> seen]
    ELSE LET u == Head(links)
         IN IF u \notin seen
            THEN AddLinks(Tail(links), label, Append(coll, <<u, label>>), seen \cup {u})
            ELSE AddLinks(Tail(links), label, coll, seen)

\* no chunk was handed to the LLM client
NoChunk == [start |-> 0, end |-> 0]

\* what session.get can give for a listing URL
ListingResponses ==
    {Resp(200, soup) : soup \in Soups}
    \cup {Resp(200, EmptyText), Resp(429, EmptyText), Resp(503, EmptyText),
          Resp(404, CHOOSE soup \in Soups : soup.anchors = <<>>), RequestException}

ZeroCounters ==
    /\ run_fingerprints' = {}
    /\ extracted_all' = <<>>
    /\ skipped_duplicate_csv' = 0
    /\ skipped_duplicate_run' = 0
    /\ failed_articles' = 0
    /\ non_article_skipped' = 0
    /\ short_text_skipped' = 0
    /\ gemini_error_counter' = 0
    /\ llm_articles' = 0

\* the state of the run block before the start button is pressed
IdleRun ==
    /\ pc = "start"
    /\ status = "idle"
    /\ ti = 0
    /\ page_num = 0
    /\ current_url = NoUrl
    /\ collected = <<>>
    /\ collected_seen = {}
    /\ visited_listing = {}
    /\ listing_fetches = <<>>
    /\ discovered = <<>>
    /\ existing_fingerprints = {}
    /\ run_fingerprints = {}
    /\ extracted_all = <<>>
    /\ skipped_duplicate_csv = 0
    /\ skipped_duplicate_run = 0
    /\ failed_articles = 0
    /\ non_article_skipped = 0
    /\ short_text_skipped = 0
    /\ gemini_error_counter = 0
    /\ llm_articles = 0
    /\ ai = 0
    /\ article_loc = <<>>
    /\ chunks = <<>>
    /\ attempt = 0
    /\ all_items = <<>>
    /\ items = <<>>
    /\ chunk_calls = 0
    /\ last_call = "none"
    /\ backoff_waits = <<>>
    /\ errors_before = 0
    /\ items_before = 0
    /\ chunk_done = FALSE
    /\ offered = <<>>
    /\ answered = 0
    /\ sent = NoChunk
    /\ since_call = "no_call"
    /\ IdleFetch
    /\ html = NoHtml

InitCrawl ==
    /\ api_key \in BOOLEAN
    /\ targets \in RawTargetLists
    /\ max_pages \in 1..MaxPagesBound
    /\ link_limit_per_page \in 1..LinkLimitBound
    /\ max_articles_total \in 1..MaxArticlesBound
    /\ IdleRun
    /\ IdleLib

\* the run started without a look at the key
ConfigErrorNoKeyCheck(key, uniq) ==
    IF uniq = <<>> THEN "error_no_url" ELSE "ok"

\* the two configuration checks, in the order of the code
ConfigError(key, uniq) ==
    IF ~key THEN "error_no_api_key"
    ELSE IF uniq = <<>> THEN "error_no_url"
    ELSE "ok"

\* the configuration checks and the set-up of the crawl
StartRun ==
    /\ pc = "start"
    /\ LET uniq == UniqueTargets(targets, <<>>)
           err == ConfigError(api_key, uniq)
       IN IF err = "error_no_api_key"
          THEN /\ status' = "error_no_api_key"
               /\ pc' = "stopped"
               /\ UNCHANGED <<targets, crawlVars, collected>>
          ELSE IF err = "error_no_url"
          THEN /\ status' = "error_no_url"
               /\ pc' = "stopped"
               /\ targets' = uniq
               /\ UNCHANGED <<crawlVars, collected>>
          ELSE /\ targets' = uniq
               /\ pc' = "crawl"
               /\ ti' = 1
               /\ page_num' = 1
               /\ current_url' = uniq[1].url
               /\ collected' = <<>>
               /\ collected_seen' = {}
               /\ visited_listing' = {}
               /\ UNCHANGED <<status, listing_fetches, discovered>>
    /\ UNCHANGED <<api_key, max_pages, link_limit_per_page, max_articles_total,
                   existing_fingerprints, extractVars, fetchVars, html, libVars>>

\* the end of one target's page loop, left with current_url = cur: the outer
\* loop breaks at the cap, goes on with the next target, or ends
LeaveTarget(coll, cur) ==
    IF CapReached(coll, max_articles_total) \/ ti >= Len(targets)
    THEN /\ pc' = "crawl_end"
         /\ current_url' = cur
         /\ UNCHANGED <<ti, page_num>>
    ELSE /\ pc' = "crawl"
         /\ ti' = ti + 1
         /\ page_num' = 1
         /\ current_url' = targets[ti + 1].url

\* one iteration of the page loop whose listing URL was visited before
CrawlRevisit ==
    /\ pc = "crawl"
    /\ AlreadyVisited(current_url, visited_listing)
    /\ status' = "revisit_stop"
    /\ LeaveTarget(collected, current_url)
    /\ UNCHANGED <<cfgVars, collected, collected_seen, visited_listing,
                   listing_fetches, discovered, existing_fingerprints, extractVars,
                   fetchVars, html, libVars>>

\* one iteration of the page loop whose listing URL is new: the URL is marked
\* visited and fetch_html is called
CrawlFetchBegin ==
    /\ pc = "crawl"
    /\ ~AlreadyVisited(current_url, visited_listing)
    /\ visited_listing' = visited_listing \cup {current_url}
    /\ listing_fetches' = Append(listing_fetches, [t |-> ti, url |-> current_url])
    /\ status' = "fetching"
    /\ pc' = "fetch"
    /\ fetch_state' = "running"
    /\ UNCHANGED <<cfgVars, ti, page_num, current_url, collected, collected_seen,
                   discovered, existing_fingerprints, extractVars, fetch_attempt,
                   fetch_gets, last_resp, last_wait, fetch_ok, html, libVars>>

\* one GET of the call of fetch_html on the listing URL
CrawlFetchGet(resp) ==
    /\ pc = "fetch"
    /\ FetchGet(resp)
    /\ UNCHANGED <<cfgVars, pc, status, crawlVars, collected, existing_fingerprints,
                   extractVars, libVars>>

\* the page loop after fetch_html has returned None: break
CrawlFetchFailed ==
    /\ pc = "fetch"
    /\ fetch_state = "returned"
    /\ Falsy(html)
    /\ status' = "unreachable"
    /\ LeaveTarget(collected, current_url)
    /\ ForgetFetch
    /\ UNCHANGED <<cfgVars, collected, collected_seen, visited_listing,
                   listing_fetches, discovered, existing_fingerprints, extractVars,
                   libVars>>

\* the page loop after fetch_html has returned the page soup
CrawlPage(soup) ==
    /\ pc = "fetch"
    /\ fetch_state = "returned"
    /\ ~Falsy(html)
    /\ html = soup
    /\ LET rule == get_site_rule(targets[ti].url)
           label == targets[ti].label
           next_url == find_next_page_url(soup, current_url, rule)
           links == extract_article_links_from_listing(soup, current_url, rule,
                                                       link_limit_per_page)
           added == AddLinks(links, label, collected, collected_seen)
       IN /\ collected' = added.collected
          /\ collected_seen' = added.collected_seen
          /\ discovered' = discovered \o [i \in 1..Len(links) |-> <<links[i], label>>]
          /\ status' = "collected"
          /\ IF CapReached(added.collected, max_articles_total) \/ next_url = NoUrl
             THEN LeaveTarget(added.collected, current_url)
             ELSE IF ~MorePages(page_num, max_pages)
             THEN LeaveTarget(added.collected, next_url)
             ELSE /\ current_url' = next_url
                  /\ page_num' = page_num + 1
                  /\ pc' = "crawl"
                  /\ UNCHANGED ti
    /\ ForgetFetch
    /\ UNCHANGED <<cfgVars, visited_listing, listing_fetches, existing_fingerprints,
                   extractVars, libVars>>

\* collected[:max_articles_total], the empty-list stop and the set-up of stage 2
FinishCrawl ==
    /\ pc = "crawl_end"
    /\ collected' = Take(collected, max_articles_total)
    /\ IF collected = <<>>
       THEN /\ status' = "error_no_article"
            /\ pc' = "stopped"
            /\ UNCHANGED <<run_fingerprints, extracted_all, skipped_duplicate_csv,
                           skipped_duplicate_run, failed_articles, non_article_skipped,
                           short_text_skipped, gemini_error_counter, llm_articles>>
       ELSE /\ status' = "extract_start"
            /\ pc' = "article"
            /\ ZeroCounters
    /\ ai' = 0
    /\ UNCHANGED <<cfgVars, crawlVars, existing_fingerprints, article_loc, chunks,
                   attempt, all_items, items, chunk_calls, last_call, backoff_waits,
                   errors_before, items_before, chunk_done, offered, answered, sent,
                   since_call, fetchVars, html, libVars>>

NextCrawl ==
    \/ StartRun
    \/ CrawlRevisit
    \/ CrawlFetchBegin
    \/ \E resp \in ListingResponses : CrawlFetchGet(resp)
    \/ CrawlFetchFailed
    \/ \E soup \in Soups : CrawlPage(soup)
    \/ FinishCrawl

SpecCrawl == InitCrawl /\ [][NextCrawl]_vars

(***************************************************************************)
(* Properties of stage 1.                                                  *)
(***************************************************************************)
RECURSIVE FirstOccurrences(_, _)
\* the pairs of a discovery sequence whose URL did not occur before, in order
FirstOccurrences(seq, acc) ==
    IF seq = <<>> THEN acc
    ELSE FirstOccurrences(Tail(seq),
            IF \E i \in 1..Len(acc) : acc[i][1] = Head(seq)[1] THEN acc
            ELSE Append(acc, Head(seq)))

FetchesOf(t) == {i \in 1..Len(listing_fetches) : listing_fetches[i].t = t}

\* C5: no listing URL is fetched twice in a run, and an iteration of the page
\* loop that finds its listing URL in the visited set fetches nothing and ends
\* the page loop of its target
C5_CycleGuard ==
    /\ [](\A i, j \in 1..Len(listing_fetches) :
             listing_fetches[i].url = listing_fetches[j].url => i = j)
    /\ [][(pc = "crawl" /\ current_url \in visited_listing)
            => /\ listing_fetches' = listing_fetches
               /\ visited_listing' = visited_listing
               /\ (pc' = "crawl_end" \/ (ti' = ti + 1 /\ page_num' = 1))]_vars

\* a followed next-page link led back to a visited page and the loop stopped
C5_Witness ==
    /\ status = "revisit_stop"
    /\ pc = "crawl_end"
    /\ page_num = 2
    /\ current_url \in visited_listing

\* C6: the list handed to stage 2 holds no URL twice and is, in order and with
\* the labels, the first occurrences of the links discovered (targets in order,
\* pages in order, links in page order)
C6_CrawlerOutput ==
    /\ pc \in {"crawl", "crawl_end"} => collected = FirstOccurrences(discovered, <<>>)
    /\ pc = "article" =>
          /\ \A i, j \in 1..Len(collected) : collected[i][1] = collected[j][1] => i = j
          /\ IsPrefix(collected, FirstOccurrences(discovered, <<>>))

\* a URL discovered again by a later target keeps its first label
C6_Witness ==
    /\ pc = "article"
    /\ Len(collected) >= 2
    /\ \E i, j \in 1..Len(discovered) :
          /\ i < j
          /\ discovered[i][1] = discovered[j][1]
          /\ discovered[i][2] # discovered[j][2]
          /\ discovered[i] \in Range(collected)

\* C7: the list handed to stage 2 has at most max_articles_total entries and
\* is a prefix of the discovery order, and no listing page is fetched once the
\* accumulated count has reached max_articles_total
C7_GlobalCap ==
    /\ [](pc = "article" =>
            /\ Len(collected) <= max_articles_total
            /\ collected = Take(FirstOccurrences(discovered, <<>>), max_articles_total))
    /\ [][Len(collected) >= max_articles_total
            => listing_fetches' = listing_fetches]_vars

\* the cap cut the list and left a target uncrawled
C7_Witness ==
    /\ pc = "article"
    /\ Len(collected) = max_articles_total
    /\ Len(FirstOccurrences(discovered, <<>>)) > max_articles_total
    /\ ti < Len(targets)

\* C8: at most max_pages listing pages are fetched per target, hence at most
\* len(targets) * max_pages in a run
C8_PageBound ==
    /\ \A t \in 1..Len(targets) : Cardinality(FetchesOf(t)) <= max_pages
    /\ \A i \in 1..Len(listing_fetches) : listing_fetches[i].t \in 1..Len(targets)
    /\ Len(listing_fetches) <= Len(targets) * max_pages

\* a page loop ended by the page bound with an unvisited next page at hand
C8_Witness ==
    /\ pc = "crawl_end"
    /\ max_pages >= 2
    /\ Cardinality(FetchesOf(ti)) = max_pages
    /\ current_url \notin visited_listing
    /\ Len(collected) < max_articles_total

\* C11: a call of fetch_html issues at most max_retries + 1 = 3 GETs; a GET
\* after the first is issued only when the GET before it was answered 429 or
\* 503 or raised a RequestException, and after a sleep of k times 1.2 s (1.0 s
\* after an exception) before the k-th retry; a GET with any other response
\* is the last one of its call
C11_FetchRetryBound ==
    /\ [](fetch_gets <= FetchMaxRetries + 1)
    /\ [][(fetch_gets >= 1 /\ fetch_gets' = fetch_gets + 1)
            => /\ (last_resp.raised \/ last_resp.status \in {429, 503})
               /\ last_wait = fetch_gets * (IF last_resp.raised THEN ExceptionWaitStep
                                            ELSE StatusWaitStep)]_vars
    /\ [][(fetch_gets' = fetch_gets + 1 /\ ~last_resp'.raised
                /\ last_resp'.status \notin {429, 503})
            => fetch_state' = "returned"]_vars

\* the third GET of a call, after an exception and a 2.0 s sleep, is answered
\* 503 and the call returns
C11_Witness ==
    /\ fetch_state = "returned"
    /\ fetch_gets = FetchMaxRetries + 1
    /\ last_resp = Resp(503, EmptyText)
    /\ last_wait = 2 * ExceptionWaitStep
    /\ html = NoHtml

\* C12: fetch_html returns the text of a response exactly when a GET of the
\* call was answered 200 with a non-empty text, and None in every other case;
\* on None the listing crawl adds nothing, ends the page loop of the target and
\* goes on with the next target or with the end of the crawl
C12_FetchResult ==
    /\ [](fetch_state = "returned" =>
            IF fetch_ok
            THEN /\ ~last_resp.raised
                 /\ last_resp.status = 200
                 /\ last_resp.text # EmptyText
                 /\ html = last_resp.text
            ELSE html = NoHtml)
    /\ [][(pc = "fetch" /\ fetch_state = "returned" /\ html = NoHtml)
            => /\ collected' = collected
               /\ discovered' = discovered
               /\ listing_fetches' = listing_fetches
               /\ \/ pc' = "crawl_end"
                  \/ pc' = "crawl" /\ ti' = ti + 1 /\ page_num' = 1]_vars

\* the second GET for the second page of a target is answered 200 with an
\* empty text, None is returned and another target is left to crawl
C12_Witness ==
    /\ pc = "fetch"
    /\ fetch_state = "returned"
    /\ fetch_gets = 2
    /\ last_resp = Resp(200, EmptyText)
    /\ html = NoHtml
    /\ page_num = 2
    /\ collected # <<>>
    /\ ti < Len(targets)

\* C16: a run without a key or without a target stops at its configuration
\* checks with an error: no listing page and no article is fetched, no GET is
\* issued and the LLM client is not called
C16_ConfigErrorsFatal ==
    /\ []((~api_key \/ UniqueTargets(targets, <<>>) = <<>>)
            => /\ pc \in {"start", "stopped"}
               /\ listing_fetches = <<>>
               /\ fetch_state = "idle"
               /\ fetch_gets = 0
               /\ html = NoHtml
               /\ collected = <<>>
               /\ sent = NoChunk
               /\ since_call = "no_call"
               /\ answered = 0)
    /\ [][(pc = "start" /\ (~api_key \/ UniqueTargets(targets, <<>>) = <<>>))
            => /\ pc' = "stopped"
               /\ status' \in {"error_no_api_key", "error_no_url"}]_vars

\* a run with targets and without a key has stopped
C16_Witness ==
    /\ pc = "stopped"
    /\ status = "error_no_api_key"
    /\ ~api_key
    /\ targets # <<>>

(***************************************************************************)
(* Strings: sequences of characters.  NoneVal is Python's None (or a NaN   *)
(* cell of the CSV), which is no string.                                   *)
(***************************************************************************)
Space == " "
WideSpace == "U+3000"
Tab == "TAB"
Parens == {"(", ")", "U+FF08", "U+FF09"}
Whitespace == {Space, WideSpace, Tab}

NoneVal == <<"None">>

IsStr(v) == v # NoneVal

Lower(c) ==
    CASE c = "A" -> "a"
      [] c = "B" -> "b"
      [] c = "S" -> "s"
      [] c = "T" -> "t"
      [] OTHER -> c

RECURSIVE Remove(_, _)
\* str.replace(c, "") for every c of drop
Remove(text, drop) ==
    IF text = <<>> THEN <<>>
    ELSE IF Head(text) \in drop THEN Remove(Tail(text), drop)
    ELSE <<Head(text)>> \o Remove(Tail(text), drop)

RECURSIVE LStrip(_)
LStrip(text) ==
    IF text # <<>> /\ Head(text) \in Whitespace THEN LStrip(Tail(text)) ELSE text

RECURSIVE RStrip(_)
RStrip(text) ==
    IF text # <<>> /\ text[Len(text)] \in Whitespace
    THEN RStrip(SubSeq(text, 1, Len(text) - 1))
    ELSE text

\* str.strip()
Strip(text) == RStrip(LStrip(text))

\* str.lower()
LowerStr(text) == [i \in 1..Len(text) |-> Lower(text[i])]

normalize_string_strip_first(text) ==
    IF ~IsStr(text) THEN <<>>
    ELSE Remove(Remove(LowerStr(Strip(text)), {Space, WideSpace}), Parens)

\* the two replace chains, then lower(), then strip()
normalize_string(text) ==
    IF ~IsStr(text) THEN <<>>
    ELSE Strip(LowerStr(Remove(Remove(text, {Space, WideSpace}), Parens)))

\* str(v or "").strip() of a value of the LLM's JSON
StrOrEmpty(v) == IF v = NoneVal THEN <<>> ELSE Strip(v)

(***************************************************************************)
(* Program constants of stage 2.                                           *)
(***************************************************************************)
ChunkSize == 8000
ChunkOverlap == 400
MinChunkLen == 120
MinTextLen == 200
LlmMaxRetries == 3
BackoffStep == 10

Max(a, b) == IF a >= b THEN a ELSE b
Min(a, b) == IF a <= b THEN a ELSE b

\* the next chunk starting overlap characters before the end of the last
NextStartBack(end, overlap) == end - overlap

\* start = max(end - overlap, end)
NextStart(end, overlap) == Max(end - overlap, end)

RECURSIVE ChunksFrom(_, _, _, _)
\* the while loop of split_text_into_chunks on a text of n characters; a chunk
\* is the slice text[start:end]
ChunksFrom(start, n, chunk_size, overlap) ==
    IF start < n
    THEN LET end == Min(start + chunk_size, n)
         IN <<[start |-> start, end |-> end]>>
            \o ChunksFrom(NextStart(end, overlap), n, chunk_size, overlap)
    ELSE <<>>

split_text_into_chunks(n, chunk_size, overlap) ==
    IF n = 0 THEN <<>> ELSE ChunksFrom(0, n, chunk_size, overlap)

ChunkLen(c) == c.end - c.start

\* no chunk passed over
ChunkTooShortNever(c) == FALSE

\* "if len(chunk) < min_chunk_len: continue" of the chunk loop
ChunkTooShort(c) == ChunkLen(c) < MinChunkLen

\* "if not text or len(text) < 200" of the article loop
TextTooShort(n) == n = 0 \/ n < MinTextLen

(***************************************************************************)
(* What the outside world hands to stage 2: the uploaded CSV, the article  *)
(* pages, the answers of the LLM client.                                   *)
(***************************************************************************)
Row(name, place) == [name |-> name, place |-> place]

\* uploaded files: none; name and place columns; a name column only
CsvFiles ==
    { [name_col |-> FALSE, place_col |-> FALSE, rows |-> <<>>],
      [name_col |-> TRUE, place_col |-> TRUE,
       rows |-> <<Row(<<"A">>, <<"(", "S", ")">>), Row(NoneVal, <<"t">>)>>],
      [name_col |-> TRUE, place_col |-> FALSE,
       rows |-> <<Row(<<"a", WideSpace>>, <<"s">>)>>] }

\* the loading of existing_fingerprints
LoadExisting(csv) ==
    IF ~csv.name_col THEN {}
    ELSE { <<normalize_string(csv.rows[i].name),
             IF csv.place_col THEN normalize_string(csv.rows[i].place) ELSE <<>> >> :
           i \in {k \in 1..Len(csv.rows) : normalize_string(csv.rows[k].name) # <<>>} }

Loc(address, latitude, longitude) ==
    [address |-> address, latitude |-> latitude, longitude |-> longitude]

\* results of extract_location_from_jsonld
Locs == { Loc(<<>>, <<>>, <<>>), Loc(<<"J">>, <<"3">>, <<>>) }

\* lengths of the main text of an article page
TextLengths == {0, 150, 8100, 16000}

NoPage == [text_len |-> 0 - 1, loc |-> Loc(<<>>, <<>>, <<>>)]

\* what fetch_html and the parsing of an article can give; NoPage is None
ArticlePages == {NoPage} \cup [text_len : TextLengths, loc : Locs]

RawItem(is_dict, name, place, address, latitude, longitude) ==
    [is_dict |-> is_dict, name |-> name, place |-> place, address |-> address,
     latitude |-> latitude, longitude |-> longitude]

\* elements of the JSON list an answer parses to
RawItems ==
    { RawItem(TRUE, <<"a">>, <<"s">>, <<>>, NoneVal, NoneVal),
      RawItem(TRUE, <<"A", Space>>, <<"s", WideSpace>>, <<"L">>, <<>>, <<"2">>),
      RawItem(TRUE, <<"a">>, NoneVal, <<>>, <<>>, <<>>),
      RawItem(TRUE, <<"(", Space, ")">>, <<"s">>, <<>>, <<>>, <<>>),
      RawItem(TRUE, <<Space>>, <<"s">>, <<>>, <<>>, <<>>),
      RawItem(FALSE, NoneVal, NoneVal, NoneVal, NoneVal, NoneVal) }

\* the answers of the LLM client: lists of up to two elements
Answers == {<<>>} \cup {<<r>> : r \in RawItems} \cup {<<r, q>> : r, q \in RawItems}

\* the answers of one run hold at most this many elements together
MaxAnswered == 3

\* outcomes of client.models.generate_content: an answer or an exception
\* whose text holds "429", "RESOURCE_EXHAUSTED" or neither
Exceptions == {"429", "RESOURCE_EXHAUSTED", "other"}

\* lists stage 1 hands over
LabelP == "PRTIMES (gourmet)"
CollectedLists ==
    { <<<<Url(PrtimesNetloc, A1), LabelP>>>>,
      <<<<Url(PrtimesNetloc, A1), LabelP>>, <<Url(OtherNetloc, L2), "custom (example.com)">>>> }

(***************************************************************************)
(* Stage 2: the article loop.  ai counts the articles of collected already *)
(* worked on (the loop's i is ai + 1).  The fields date_info, description  *)
(* and release_date of an item are copied through and never read by the    *)
(* steps below; they are left out of the records.                          *)
(***************************************************************************)
RECURSIVE BuildItems(_)
\* the loop of ai_extract_events_from_text over the parsed answer
BuildItems(answer) ==
    IF answer = <<>> THEN <<>>
    ELSE LET raw == Head(answer)
         IN IF ~raw.is_dict \/ StrOrEmpty(raw.name) = <<>>
            THEN BuildItems(Tail(answer))
            ELSE <<[name |-> StrOrEmpty(raw.name),
                    place |-> StrOrEmpty(raw.place),
                    address |-> StrOrEmpty(raw.address),
                    latitude |-> StrOrEmpty(raw.latitude),
                    longitude |-> StrOrEmpty(raw.longitude)]>>
                 \o BuildItems(Tail(answer))

IsRateLimit(exc) == exc \in {"429", "RESOURCE_EXHAUSTED"}

\* a retry after any exception
ShouldRetryAny(exc, att) == att < LlmMaxRetries

\* the retry decision of the except branch
ShouldRetry(exc, att) == IsRateLimit(exc) /\ att < LlmMaxRetries

\* every exception counted, retried or not
ErrorsRecordedEachTry(exc, att) == 1

\* what the except branch adds to gemini_error_counter["count"]
ErrorsRecorded(exc, att) ==
    IF IsRateLimit(exc) THEN (IF att < LlmMaxRetries THEN 0 ELSE 1) ELSE 1

\* wait_time of the except branch
WaitTime(att) == BackoffStep * (att + 1)

\* the merge of an item with the JSON-LD location of its article
MergeLocation(item, loc) ==
    [item EXCEPT
        !.address = IF loc.address # <<>> /\ item.address = <<>> THEN loc.address ELSE @,
        !.latitude = IF loc.latitude # <<>> /\ item.latitude = <<>> THEN loc.latitude ELSE @,
        !.longitude = IF loc.longitude # <<>> /\ item.longitude = <<>> THEN loc.longitude ELSE @]

Fingerprint(item) == <<normalize_string(item.name), normalize_string(item.place)>>

\* the dedup step without either test
DedupVerdictAcceptAll(fp, existing, run) ==
    IF fp[1] = <<>> THEN "no_name" ELSE "accept"

\* the dedup step without its test against run_fingerprints
DedupVerdictNoRun(fp, existing, run) ==
    IF fp[1] = <<>> THEN "no_name"
    ELSE IF fp \in existing THEN "csv"
    ELSE "accept"

\* the dedup step without its test against existing_fingerprints
DedupVerdictNoCsv(fp, existing, run) ==
    IF fp[1] = <<>> THEN "no_name"
    ELSE IF fp \in run THEN "run"
    ELSE "accept"

\* the tests of the dedup step, in the order of the code
DedupVerdict(fp, existing, run) ==
    IF fp[1] = <<>> THEN "no_name"
    ELSE IF fp \in existing THEN "csv"
    ELSE IF fp \in run THEN "run"
    ELSE "accept"

\* the offers made so far, with this one
Offer(log, fp, rec) ==
    IF \E k \in 1..Len(log) : log[k].fp = fp
    THEN [k \in 1..Len(log) |->
            IF log[k].fp = fp
            THEN [log[k] EXCEPT !.count = @ + 1, !.last_url = rec.source_url]
            ELSE log[k]]
    ELSE Append(log, [fp |-> fp, item |-> rec, count |-> 1, last_url |-> rec.source_url])

StageOneDone ==
    /\ api_key = TRUE
    /\ targets = <<Target(Url(PrtimesNetloc, L1), LabelP),
                   Target(Url(OtherNetloc, L1), "custom (example.com)")>>
    /\ max_pages = MaxPagesBound
    /\ link_limit_per_page = LinkLimitBound
    /\ max_articles_total = MaxArticlesBound
    /\ ti = Len(targets)
    /\ page_num = 1
    /\ current_url = targets[ti].url
    /\ collected \in CollectedLists
    /\ collected_seen = {collected[k][1] : k \in 1..Len(collected)}
    /\ visited_listing = {targets[k].url : k \in 1..Len(targets)}
    /\ listing_fetches = [k \in 1..Len(targets) |-> [t |-> k, url |-> targets[k].url]]
    /\ discovered = collected

InitExtract ==
    /\ StageOneDone
    /\ pc = "article"
    /\ status = "extract_start"
    /\ existing_fingerprints \in {LoadExisting(f) : f \in CsvFiles}
    /\ run_fingerprints = {}
    /\ extracted_all = <<>>
    /\ skipped_duplicate_csv = 0
    /\ skipped_duplicate_run = 0
    /\ failed_articles = 0
    /\ non_article_skipped = 0
    /\ short_text_skipped = 0
    /\ gemini_error_counter = 0
    /\ llm_articles = 0
    /\ ai = 0
    /\ article_loc = Loc(<<>>, <<>>, <<>>)
    /\ chunks = <<>>
    /\ attempt = 0
    /\ all_items = <<>>
    /\ items = <<>>
    /\ chunk_calls = 0
    /\ last_call = "none"
    /\ backoff_waits = <<>>
    /\ errors_before = 0
    /\ items_before = 0
    /\ chunk_done = FALSE
    /\ offered = <<>>
    /\ answered = 0
    /\ sent = NoChunk
    /\ since_call = "no_call"
    /\ IdleFetch
    /\ html = NoHtml
    /\ IdleLib

stageOneVars == <<cfgVars, crawlVars, collected, existing_fingerprints, fetchVars,
                  libVars>>

\* the history of the last chunk is kept until ai_extract_events_from_text has
\* returned and the run block takes its next step
ForgetChunk ==
    /\ chunk_calls' = 0
    /\ last_call' = "none"
    /\ backoff_waits' = <<>>
    /\ errors_before' = 0
    /\ items_before' = 0
    /\ chunk_done' = FALSE
    /\ sent' = NoChunk

\* the article loop without its test of the fetched page
ArticleFetchFailedNever(page) == FALSE

\* "if not html" of the article loop
ArticleFetchFailed(page) == page = NoPage

\* time.sleep(sleep_sec) at the end of an iteration of the article loop
Paused(sc) == IF sc = "no_call" THEN "no_call" ELSE "paused"

\* the head of the article loop up to the call of ai_extract_events_from_text
ArticleBegin(page) ==
    /\ pc = "article"
    /\ ai < Len(collected)
    /\ LET article_url == collected[ai + 1][1]
           rule == get_site_rule(article_url)
       IN IF ~is_article_url(article_url, rule)
          THEN /\ non_article_skipped' = non_article_skipped + 1
               /\ ai' = ai + 1
               /\ UNCHANGED <<pc, failed_articles, short_text_skipped, llm_articles,
                              article_loc, chunks, all_items, html>>
          ELSE IF ArticleFetchFailed(page)
          THEN /\ failed_articles' = failed_articles + 1
               /\ ai' = ai + 1
               /\ html' = page
               /\ UNCHANGED <<pc, non_article_skipped, short_text_skipped, llm_articles,
                              article_loc, chunks, all_items>>
          ELSE IF TextTooShort(page.text_len)
          THEN /\ short_text_skipped' = short_text_skipped + 1
               /\ ai' = ai + 1
               /\ html' = page
               /\ UNCHANGED <<pc, non_article_skipped, failed_articles, llm_articles,
                              article_loc, chunks, all_items>>
          ELSE /\ article_loc' = page.loc
               /\ chunks' = split_text_into_chunks(page.text_len, ChunkSize, ChunkOverlap)
               /\ all_items' = <<>>
               /\ pc' = "llm"
               /\ html' = page
               /\ llm_articles' = llm_articles + 1
               /\ UNCHANGED <<ai, non_article_skipped, failed_articles,
                              short_text_skipped>>
    /\ status' = "article"
    /\ ForgetChunk
    /\ UNCHANGED <<stageOneVars, dedupVars, attempt, items, gemini_error_counter,
                   answered, since_call>>

\* an article that gave no item is not left behind
NextChunkOrReturnStay(every, sc) ==
    /\ chunks' = Tail(chunks)
    /\ attempt' = 0
    /\ IF Tail(chunks) # <<>>
       THEN /\ since_call' = sc
            /\ UNCHANGED <<pc, ai, items>>
       ELSE IF every = <<>>
       THEN /\ pc' = "article"
            /\ ai' = ai
            /\ since_call' = Paused(sc)
            /\ UNCHANGED items
       ELSE /\ pc' = "dedup"
            /\ items' = every
            /\ since_call' = sc
            /\ UNCHANGED ai

\* the chunk loop goes on with the next chunk, or ai_extract_events_from_text
\* returns all_items = every: an empty list ends the article (the item loop
\* has no iteration), another one starts the item loop
NextChunkOrReturn(every, sc) ==
    /\ chunks' = Tail(chunks)
    /\ attempt' = 0
    /\ IF Tail(chunks) # <<>>
       THEN /\ since_call' = sc
            /\ UNCHANGED <<pc, ai, items>>
       ELSE IF every = <<>>
       THEN /\ pc' = "article"
            /\ ai' = ai + 1
            /\ since_call' = Paused(sc)
            /\ UNCHANGED items
       ELSE /\ pc' = "dedup"
            /\ items' = every
            /\ since_call' = sc
            /\ UNCHANGED ai

\* a chunk shorter than min_chunk_len is passed over
SkipChunk ==
    /\ pc = "llm"
    /\ ChunkTooShort(Head(chunks))
    /\ NextChunkOrReturn(all_items, since_call)
    /\ UNCHANGED <<stageOneVars, status, dedupVars, countVars, article_loc, all_items,
                   gemini_error_counter, chunk_calls, last_call, backoff_waits,
                   errors_before, items_before, chunk_done, answered, sent, html>>

\* the history of the chunk at hand, a first call starting it afresh
LogCall(outcome) ==
    /\ chunk_calls' = IF attempt = 0 THEN 1 ELSE chunk_calls + 1
    /\ last_call' = outcome
    /\ errors_before' = IF attempt = 0 THEN gemini_error_counter ELSE errors_before
    /\ items_before' = IF attempt = 0 THEN Len(all_items) ELSE items_before
    /\ sent' = Head(chunks)

\* one call of the LLM client that returns an answer
LLMAnswer(answer) ==
    /\ pc = "llm"
    /\ ~ChunkTooShort(Head(chunks))
    /\ answered + Len(answer) <= MaxAnswered
    /\ answered' = answered + Len(answer)
    /\ LogCall("ok")
    /\ backoff_waits' = IF attempt = 0 THEN <<>> ELSE backoff_waits
    /\ all_items' = all_items \o BuildItems(answer)
    /\ chunk_done' = TRUE
    /\ NextChunkOrReturn(all_items \o BuildItems(answer), "not_paused")
    /\ UNCHANGED <<stageOneVars, status, dedupVars, countVars, article_loc,
                   gemini_error_counter, html>>

\* one call of the LLM client that raises
LLMException(exc) ==
    /\ pc = "llm"
    /\ ~ChunkTooShort(Head(chunks))
    /\ LogCall(exc)
    /\ gemini_error_counter' = gemini_error_counter + ErrorsRecorded(exc, attempt)
    /\ IF ShouldRetry(exc, attempt)
       THEN /\ backoff_waits' = Append(IF attempt = 0 THEN <<>> ELSE backoff_waits,
                                       WaitTime(attempt))
            /\ attempt' = attempt + 1
            /\ chunk_done' = FALSE
            /\ since_call' = "not_paused"
            /\ UNCHANGED <<pc, ai, items, chunks>>
       ELSE /\ backoff_waits' = IF attempt = 0 THEN <<>> ELSE backoff_waits
            /\ chunk_done' = TRUE
            /\ NextChunkOrReturn(all_items, "not_paused")
    /\ UNCHANGED <<stageOneVars, status, dedupVars, countVars, article_loc, all_items,
                   answered, html>>

\* one iteration of the item loop: merge, fingerprint, dedup
DedupItem ==
    /\ pc = "dedup"
    /\ items # <<>>
    /\ LET item == MergeLocation(Head(items), article_loc)
           fp == Fingerprint(item)
           verdict == DedupVerdict(fp, existing_fingerprints, run_fingerprints)
           rec == [name |-> item.name, place |-> item.place, address |-> item.address,
                   latitude |-> item.latitude, longitude |-> item.longitude,
                   source_label |-> collected[ai + 1][2],
                   source_url |-> collected[ai + 1][1]]
       IN /\ skipped_duplicate_csv' = skipped_duplicate_csv + (IF verdict = "csv" THEN 1 ELSE 0)
          /\ skipped_duplicate_run' = skipped_duplicate_run + (IF verdict = "run" THEN 1 ELSE 0)
          /\ run_fingerprints' = IF verdict = "accept" THEN run_fingerprints \cup {fp}
                                 ELSE run_fingerprints
          /\ extracted_all' = IF verdict = "accept" THEN Append(extracted_all, rec)
                              ELSE extracted_all
          /\ offered' = IF fp[1] = <<>> THEN offered ELSE Offer(offered, fp, rec)
    /\ items' = Tail(items)
    /\ IF Tail(items) = <<>>
       THEN pc' = "article" /\ ai' = ai + 1 /\ since_call' = Paused(since_call)
       ELSE UNCHANGED <<pc, ai, since_call>>
    /\ ForgetChunk
    /\ UNCHANGED <<stageOneVars, status, countVars, chunks, attempt, all_items,
                   gemini_error_counter, article_loc, answered, html>>

\* the end of the run: the counters are reported
Report ==
    /\ pc = "article"
    /\ ai = Len(collected)
    /\ pc' = "done"
    /\ status' = IF extracted_all = <<>> THEN "zero_results" ELSE "success"
    /\ ForgetChunk
    /\ UNCHANGED <<stageOneVars, dedupVars, countVars, chunks, attempt, all_items,
                   gemini_error_counter, ai, article_loc, items, answered, since_call,
                   html>>

NextExtract ==
    \/ \E page \in ArticlePages : ArticleBegin(page)
    \/ SkipChunk
    \/ \E answer \in Answers : LLMAnswer(answer)
    \/ \E exc \in Exceptions : LLMException(exc)
    \/ DedupItem
    \/ Report

SpecExtract == InitExtract /\ [][NextExtract]_vars

(***************************************************************************)
(* Properties of stage 2.                                                  *)
(***************************************************************************)
Known(o) == o.fp \in existing_fingerprints

Unknown(o) == o.fp \notin existing_fingerprints

RECURSIVE SumCounts(_)
SumCounts(log) == IF log = <<>> THEN 0 ELSE Head(log).count + SumCounts(Tail(log))

\* C1: the output never holds two records with one fingerprint; of the items
\* offered with a fingerprint that is not in the CSV, the first is the record
\* of the output and every later one is counted as an in-run duplicate
C1_InRunDedup ==
    LET firsts == SelectSeq(offered, Unknown)
    IN /\ \A i, j \in 1..Len(extracted_all) :
             Fingerprint(extracted_all[i]) = Fingerprint(extracted_all[j]) => i = j
       /\ extracted_all = [k \in 1..Len(firsts) |-> firsts[k].item]
       /\ skipped_duplicate_run = SumCounts(firsts) - Len(firsts)

\* the same fingerprint offered by two articles, one record, one skip
C1_Witness ==
    /\ \E k \in 1..Len(offered) :
          /\ Unknown(offered[k])
          /\ offered[k].count >= 2
          /\ offered[k].last_url # offered[k].item.source_url
          /\ offered[k].item \in Range(extracted_all)
    /\ skipped_duplicate_run >= 1

\* C2: no record of the output has a fingerprint of the CSV; every item
\* offered with such a fingerprint adds one to the CSV-duplicate counter and
\* nothing to the in-run counter; existing_fingerprints never changes and
\* shares nothing with run_fingerprints
C2_KnownExclusion ==
    /\ [](/\ \A k \in 1..Len(extracted_all) :
               Fingerprint(extracted_all[k]) \notin existing_fingerprints
          /\ run_fingerprints \cap existing_fingerprints = {}
          /\ skipped_duplicate_csv = SumCounts(SelectSeq(offered, Known)))
    /\ [][/\ existing_fingerprints' = existing_fingerprints
          /\ skipped_duplicate_csv' # skipped_duplicate_csv
                => /\ skipped_duplicate_csv' = skipped_duplicate_csv + 1
                   /\ skipped_duplicate_run' = skipped_duplicate_run
                   /\ extracted_all' = extracted_all
                   /\ run_fingerprints' = run_fingerprints]_vars

\* known events were offered twice and skipped while another item was accepted
C2_Witness ==
    /\ existing_fingerprints # {}
    /\ skipped_duplicate_csv >= 2
    /\ skipped_duplicate_run = 0
    /\ extracted_all # <<>>

\* C3: an item without place whose name is the name of a known fingerprint
\* (of the CSV or of the run) with a place is not accepted into the output
C3_NameOnlyFallback ==
    [][(/\ pc = "dedup"
        /\ items # <<>>
        /\ LET fp == Fingerprint(MergeLocation(Head(items), article_loc))
           IN /\ fp[1] # <<>>
              /\ fp[2] = <<>>
              /\ \E k \in existing_fingerprints \cup run_fingerprints :
                    k[1] = fp[1] /\ k[2] # <<>>)
         => extracted_all' = extracted_all]_vars

\* C4: the record accepted carries the JSON-LD address, latitude and
\* longitude where they are non-empty, and the LLM's where they are empty
C4_MergePrecedence ==
    [][(pc = "dedup" /\ items # <<>> /\ Len(extracted_all') = Len(extracted_all) + 1)
         => LET rec == extracted_all'[Len(extracted_all')]
                item == Head(items)
            IN /\ rec.address = IF article_loc.address # <<>> THEN article_loc.address
                                ELSE item.address
               /\ rec.latitude = IF article_loc.latitude # <<>> THEN article_loc.latitude
                                 ELSE item.latitude
               /\ rec.longitude = IF article_loc.longitude # <<>> THEN article_loc.longitude
                                  ELSE item.longitude]_vars

\* C9: a chunk whose call ends in an exception that is not retried adds
\* exactly one to the error counter and no item, and the run goes on; a chunk
\* whose call succeeds adds nothing to the counter, nor do the retried calls
C9_FailureContainment ==
    /\ (chunk_done /\ last_call \in Exceptions) =>
          /\ gemini_error_counter = errors_before + 1
          /\ Len(all_items) = items_before
          /\ pc \in {"llm", "dedup", "article"}
          /\ (pc = "llm" => chunks # <<>> /\ attempt = 0)
    /\ (chunk_done /\ last_call \in {"429", "RESOURCE_EXHAUSTED"}) =>
          chunk_calls = LlmMaxRetries + 1
    /\ (chunk_done /\ last_call = "ok") => gemini_error_counter = errors_before
    /\ (~chunk_done /\ chunk_calls > 0) =>
          /\ gemini_error_counter = errors_before
          /\ Len(all_items) = items_before

\* the retries of a chunk were exhausted, one error was counted and the next
\* chunk of the article is at hand
C9_Witness ==
    /\ chunk_done
    /\ last_call = "RESOURCE_EXHAUSTED"
    /\ chunk_calls = 4
    /\ gemini_error_counter = errors_before + 1
    /\ pc = "llm"
    /\ ChunkLen(Head(chunks)) >= MinChunkLen

\* C10: a chunk gets at most 4 calls; a further call is made only after an
\* exception with "429" or "RESOURCE_EXHAUSTED", never after another
\* exception or an answer; the sleeps before the retries are 10, 20, 30
C10_RateLimitRetry ==
    LET retries == IF chunk_done THEN chunk_calls - 1 ELSE chunk_calls
    IN /\ chunk_calls <= 4
       /\ retries <= 3
       /\ (~chunk_done /\ chunk_calls > 0) =>
             /\ last_call \in {"429", "RESOURCE_EXHAUSTED"}
             /\ attempt = chunk_calls
             /\ pc = "llm"
       /\ chunk_calls > 0 => backoff_waits = SubSeq(<<10, 20, 30>>, 1, retries)
       /\ chunk_done => attempt = 0

\* the third retry of a chunk succeeded
C10_Witness ==
    /\ chunk_done
    /\ last_call = "ok"
    /\ chunk_calls = 4
    /\ backoff_waits = <<10, 20, 30>>

\* a step of the article loop that takes up the next article of collected
TakesArticle == pc = "article" /\ (ai' = ai + 1 \/ pc' = "llm")

\* C13: an article whose main text is empty or shorter than 200 characters is
\* counted in short_text_skipped and left without any call of the LLM client,
\* and a chunk handed to the LLM client has at least 120 characters and comes
\* from a text of at least 200
C13_NoNearEmptyText ==
    /\ [](sent # NoChunk => /\ ChunkLen(sent) >= MinChunkLen
                            /\ html.text_len >= MinTextLen)
    /\ []((html \in ArticlePages /\ html # NoPage /\ html.text_len < MinTextLen)
            => sent = NoChunk /\ pc \notin {"llm", "dedup"})
    /\ [][(TakesArticle /\ html' \in ArticlePages /\ html' # NoPage
                /\ html'.text_len < MinTextLen)
            => /\ short_text_skipped' = short_text_skipped + 1
               /\ ai' = ai + 1
               /\ pc' = "article"
               /\ sent' = NoChunk
               /\ answered' = answered]_vars

\* after an article skipped for its short text, the first chunk of a text of
\* 8100 characters was sent and its second chunk of 100 characters passed over
C13_Witness ==
    /\ short_text_skipped = 1
    /\ html \in ArticlePages
    /\ html.text_len = 8100
    /\ sent = [start |-> 0, end |-> 8000]
    /\ chunks = <<>>
    /\ pc = "dedup"

\* C14: when fetch_html returns None for an article, failed_articles goes up by
\* one and no other counter moves, the LLM client is not called, no record is
\* added, and the loop goes on with the next article
C14_ArticleFetchFailure ==
    /\ [](html = NoPage
            => /\ sent = NoChunk
               /\ pc \in {"article", "done"}
               /\ \A k \in 1..Len(extracted_all) :
                     extracted_all[k].source_url # collected[ai][1])
    /\ [][(TakesArticle /\ html' = NoPage)
            => /\ failed_articles' = failed_articles + 1
               /\ UNCHANGED <<short_text_skipped, non_article_skipped,
                              gemini_error_counter, skipped_duplicate_csv,
                              skipped_duplicate_run, extracted_all, run_fingerprints,
                              answered>>
               /\ sent' = NoChunk
               /\ pc' = "article"
               /\ ai' = ai + 1]_vars

\* the first article could not be fetched and the second one is at the LLM
C14_Witness ==
    /\ failed_articles = 1
    /\ ai = 1
    /\ pc = "llm"
    /\ html # NoPage
    /\ extracted_all = <<>>

\* a step in which the LLM client is called
LlmCallStep == pc = "llm" /\ (sent' # sent \/ chunk_calls' # chunk_calls)

\* C15: a call of the LLM client that is not the first of the run is made
\* after time.sleep(sleep_sec) has run since the call before it
C15_ProactivePacing ==
    [][(LlmCallStep /\ since_call # "no_call") => since_call = "paused"]_vars

(***************************************************************************)
(* The whole run block: the configuration checks, the listing crawl and    *)
(* the article loop in one run, for a configuration of at most one target, *)
(* two listing pages, one link per page and two articles.  The run block   *)
(* is sequential code whose HTTP requests and LLM calls carry timeouts, so *)
(* a step that can be taken is taken.                                      *)
(***************************************************************************)
InitRun ==
    /\ InitCrawl
    /\ Len(targets) <= 1
    /\ max_pages = 2
    /\ link_limit_per_page = 1
    /\ max_articles_total = 2

NextRun == NextCrawl \/ NextExtract

SpecRun == InitRun /\ [][NextRun]_vars /\ WF_vars(NextRun)

\* the run block has ended: st.stop() or its last statement
RunEnded == pc \in {"stopped", "done"}

\* the status line lists the counters
CountersReported == status \in {"zero_results", "success"}

\* the work left to the run, compared from left to right: the stage, then in
\* the crawl the targets, the pages and the steps of the fetch left, and in
\* the article loop the articles, the steps of the article, the chunks, the
\* attempts and the items left
Variant ==
    IF pc = "start" THEN <<4, 0, 0, 0, 0, 0>>
    ELSE IF pc \in {"crawl", "fetch"}
    THEN <<3, Len(targets) - ti, max_pages - page_num,
           IF pc = "crawl" THEN FetchMaxRetries + 3
           ELSE IF fetch_state = "running" THEN FetchMaxRetries + 2 - fetch_gets
           ELSE 0,
           0, 0>>
    ELSE IF pc = "crawl_end" THEN <<2, 0, 0, 0, 0, 0>>
    ELSE IF pc \in {"article", "llm", "dedup"}
    THEN <<1, Len(collected) - ai,
           IF pc = "article" THEN 2 ELSE IF pc = "llm" THEN 1 ELSE 0,
           Len(chunks), LlmMaxRetries - attempt, Len(items)>>
    ELSE <<0, 0, 0, 0, 0, 0>>

LexLess(a, b) ==
    \E i \in 1..Len(a) : a[i] < b[i] /\ \A j \in 1..(i - 1) : a[j] = b[j]

\* C17: the run cannot hang (a run that has not ended can take a step), every
\* step reduces the work left, which is never negative, so that every run
\* ends, whatever the fetches and the LLM calls give; and a run that has passed
\* the configuration checks ends with the counters in its status line
C17_RunCompletion ==
    /\ [](RunEnded \/ ENABLED NextRun)
    /\ [](\A i \in 1..Len(Variant) : Variant[i] >= 0)
    /\ [][LexLess(Variant', Variant)]_vars
    /\ []((RunEnded /\ ConfigError(api_key, targets) = "ok") => CountersReported)

(***************************************************************************)
(* split_text_into_chunks on its own: the generator is run to its end on a *)
(* text of split_n characters with the arguments split_size and            *)
(* split_overlap, one step per test of the while loop.                     *)
(***************************************************************************)
MaxTextLen == 25
MaxSplitSize == 10

InitChunk ==
    /\ api_key = FALSE
    /\ targets = <<>>
    /\ max_pages = 1
    /\ link_limit_per_page = 1
    /\ max_articles_total = 1
    /\ IdleRun
    /\ IdleJson
    /\ IdleUtil
    /\ split_n \in 0..MaxTextLen
    /\ split_size \in 1..MaxSplitSize
    /\ split_overlap \in 0..(MaxSplitSize - 1)
    /\ split_start = 0
    /\ split_out = <<>>
    /\ split_pc = "call"

\* "if not text: return", else start = 0 and n = len(text)
SplitEnter ==
    /\ split_pc = "call"
    /\ split_pc' = IF split_n = 0 THEN "done" ELSE "loop"
    /\ split_start' = 0
    /\ UNCHANGED <<runVars, jsonVars, utilVars, split_n, split_size, split_overlap, split_out>>

\* one iteration of the while loop: the slice text[start:end] is yielded
SplitYield ==
    /\ split_pc = "loop"
    /\ split_start < split_n
    /\ LET end == Min(split_start + split_size, split_n)
       IN /\ split_out' = Append(split_out, [start |-> split_start, end |-> end])
          /\ split_start' = NextStart(end, split_overlap)
    /\ UNCHANGED <<runVars, jsonVars, utilVars, split_n, split_size, split_overlap, split_pc>>

\* the while test fails and the generator ends
SplitReturn ==
    /\ split_pc = "loop"
    /\ ~(split_start < split_n)
    /\ split_pc' = "done"
    /\ UNCHANGED <<runVars, jsonVars, utilVars, split_n, split_size, split_overlap, split_start,
                   split_out>>

NextChunk ==
    \/ SplitEnter
    \/ SplitYield
    \/ SplitReturn

SpecChunk == InitChunk /\ [][NextChunk]_vars

\* C18: with 0 < overlap < size and a text longer than size, every chunk after
\* the first begins overlap characters before the end of the chunk before it
C18_ChunkOverlap ==
    (split_pc = "done" /\ 0 < split_overlap /\ split_overlap < split_size
        /\ split_n > split_size)
    => \A i \in 2..Len(split_out) :
          split_out[i].start = split_out[i - 1].end - split_overlap

\* C19: with 0 <= overlap < size the generator ends (a generator that has not
\* ended can take a step, and every chunk yielded moves start forward, never
\* beyond the end of the text), no chunk is empty, every chunk but the last
\* has size characters, every position of the text lies in a chunk, and an
\* empty text yields no chunk
C19_ChunkerCoverage ==
    /\ [](split_overlap < split_size =>
            /\ (split_pc = "done" \/ ENABLED NextChunk)
            /\ split_start <= split_n
            /\ \A i \in 1..Len(split_out) :
                  /\ split_out[i].start < split_out[i].end
                  /\ i < Len(split_out) => ChunkLen(split_out[i]) = split_size
            /\ split_pc = "done" =>
                  /\ \A q \in 0..(split_n - 1) : \E i \in 1..Len(split_out) :
                        split_out[i].start <= q /\ q < split_out[i].end
                  /\ split_n = 0 => split_out = <<>>)
    /\ [][(split_overlap < split_size /\ split_out' # split_out)
            => split_start' > split_start]_vars

\* a text of 25 characters cut with size 10 and overlap 3 has given three
\* chunks, the last one of 5 characters
C19_Witness ==
    /\ split_pc = "done"
    /\ split_n = 25
    /\ split_size = 10
    /\ split_overlap = 3
    /\ Len(split_out) = 3
    /\ ChunkLen(split_out[3]) = 5

(***************************************************************************)
(* safe_json_parse on its own.  A string is a sequence of tokens: the      *)
(* punctuation of JSON, two string literals sa and sb, the number 1, white *)
(* space, the code fences and other text x.  A parsed value is kept as its *)
(* tokens without white space; its first token tells a list from a dict.   *)
(***************************************************************************)
MaxJsonLen == 4

FenceJson == "FENCE_JSON"
Fence == "FENCE"

StringTokens == {"sa", "sb"}
ScalarTokens == StringTokens \cup {"1"}
JsonWhitespace == {Space, Tab}

NoParse == [ok |-> FALSE, next |-> 0, val |-> <<>>, elems |-> <<>>]

Parsed(next, val, elems) == [ok |-> TRUE, next |-> next, val |-> val, elems |-> elems]

RECURSIVE SkipWs(_, _)
\* the place of the first token at or after i that is not white space
SkipWs(t, i) ==
    IF i <= Len(t) /\ t[i] \in JsonWhitespace THEN SkipWs(t, i + 1) ELSE i

RECURSIVE ParseValue(_, _)
RECURSIVE ParseElems(_, _, _, _)
RECURSIVE ParseMembers(_, _, _)

\* the JSON decoder on the value that starts at or after place i
ParseValue(t, i) ==
    LET j == SkipWs(t, i)
    IN IF j > Len(t) THEN NoParse
       ELSE IF t[j] \in ScalarTokens THEN Parsed(j + 1, <<t[j]>>, <<>>)
       ELSE IF t[j] = "["
       THEN LET k == SkipWs(t, j + 1)
            IN IF k <= Len(t) /\ t[k] = "]" THEN Parsed(k + 1, <<"[", "]">>, <<>>)
               ELSE ParseElems(t, j + 1, <<"[">>, <<>>)
       ELSE IF t[j] = "{"
       THEN LET k == SkipWs(t, j + 1)
            IN IF k <= Len(t) /\ t[k] = "}" THEN Parsed(k + 1, <<"{", "}">>, <<>>)
               ELSE ParseMembers(t, j + 1, <<"{">>)
       ELSE NoParse

\* the elements of an array from place i on: a value, then "," or "]"
ParseElems(t, i, text, elems) ==
    LET v == ParseValue(t, i)
        k == SkipWs(t, v.next)
    IN IF ~v.ok \/ k > Len(t) THEN NoParse
       ELSE IF t[k] = ","
       THEN ParseElems(t, k + 1, text \o v.val \o <<",">>, Append(elems, v.val))
       ELSE IF t[k] = "]"
       THEN Parsed(k + 1, text \o v.val \o <<"]">>, Append(elems, v.val))
       ELSE NoParse

\* the members of an object from place i on: a string, ":", a value, then ","
\* or "}"
ParseMembers(t, i, text) ==
    LET j == SkipWs(t, i)
        c == SkipWs(t, j + 1)
        v == ParseValue(t, c + 1)
        k == SkipWs(t, v.next)
    IN IF j > Len(t) \/ t[j] \notin StringTokens THEN NoParse
       ELSE IF c > Len(t) \/ t[c] # ":" THEN NoParse
       ELSE IF ~v.ok \/ k > Len(t) THEN NoParse
       ELSE IF t[k] = ","
       THEN ParseMembers(t, k + 1, text \o <<t[j], ":">> \o v.val \o <<",">>)
       ELSE IF t[k] = "}"
       THEN Parsed(k + 1, text \o <<t[j], ":">> \o v.val \o <<"}">>, <<>>)
       ELSE NoParse

\* json.loads: one value and nothing but white space after it; NoParse stands
\* for the exception
json_loads(t) ==
    LET r == ParseValue(t, 1)
    IN IF r.ok /\ SkipWs(t, r.next) > Len(t) THEN r ELSE NoParse

\* str.find and str.rfind, 0 for -1
Find(t, c) ==
    IF \E i \in 1..Len(t) : t[i] = c
    THEN CHOOSE i \in 1..Len(t) : t[i] = c /\ \A j \in 1..(i - 1) : t[j] # c
    ELSE 0

RFind(t, c) ==
    IF \E i \in 1..Len(t) : t[i] = c
    THEN CHOOSE i \in 1..Len(t) : t[i] = c /\ \A j \in (i + 1)..Len(t) : t[j] # c
    ELSE 0

\* cand = s[l:r+1] under "l != -1 and r != -1 and r > l", else no candidate
Candidate(t, open, close) ==
    LET l == Find(t, open)
        r == RFind(t, close)
    IN IF l # 0 /\ r # 0 /\ r > l THEN SubSeq(t, l, r) ELSE <<>>

\* the two replace calls that drop the code fences, then strip()
Unfence(t) == Strip(Remove(t, {FenceJson, Fence}))

\* the texts an answer of the LLM client can hold: every text of up to
\* MaxJsonLen tokens, and longer ones made of a JSON value, whole or cut
\* short by its last token, inside a fence, after or before other text
JsonAlphabet == {"[", "]", "{", "}", ",", ":", "sa", "x"}

ShortTexts == UNION {[1..k -> JsonAlphabet] : k \in 0..MaxJsonLen}

JsonObjects ==
    { <<"{", "sa", ":", "1", "}">>,
      <<"{", "sa", ":", "sb", ",", "sb", ":", "[", "sa", "]", "}">>,
      <<"{", "sa", ":", "[", "]", ",", "sb", ":", "1", "}">>,
      <<"{", "sa", ":", "[", "1", "]", ",", "sb", ":", "[", "1", "]", "}">>,
      <<"{", "sa", ":", "{", "sb", ":", "1", "}", "}">> }

JsonLists ==
    {<<"[">> \o o \o <<"]">> : o \in JsonObjects}
    \cup {<<"[">> \o o \o <<",", Space>> \o q \o <<"]">> : o, q \in JsonObjects}
    \cup {<<"[", "1", ",", "sa", "]">>}

TextsBefore == {<<>>, <<FenceJson, Space>>, <<"x", Space>>, <<WideSpace>>}
TextsAfter == {<<>>, <<Space, Fence>>, <<Space, "x">>}

CutShort(t) == SubSeq(t, 1, Len(t) - 1)

JsonInputs ==
    ShortTexts
    \cup {NoneVal}
    \cup {b \o v \o a : b \in TextsBefore, v \in JsonObjects \cup JsonLists,
                         a \in TextsAfter}
    \cup {b \o CutShort(v) \o a : b \in TextsBefore, v \in JsonObjects \cup JsonLists,
                                   a \in TextsAfter}

InitJson ==
    /\ api_key = FALSE
    /\ targets = <<>>
    /\ max_pages = 1
    /\ link_limit_per_page = 1
    /\ max_articles_total = 1
    /\ IdleRun
    /\ IdleSplit
    /\ IdleUtil
    /\ json_str \in JsonInputs
    /\ json_out = <<>>
    /\ json_pc = "call"

\* "if not json_str or not isinstance(json_str, str): return []"
JsonEnter ==
    /\ json_pc = "call"
    /\ json_pc' = IF ~IsStr(json_str) \/ json_str = <<>> THEN "done" ELSE "list"
    /\ json_out' = <<>>
    /\ UNCHANGED <<runVars, splitVars, utilVars, json_str>>

\* the span from the first "[" to the last "]": a list that parses is returned
JsonTryList ==
    /\ json_pc = "list"
    /\ LET cand == Candidate(Unfence(json_str), "[", "]")
           obj == json_loads(cand)
       IN IF cand # <<>> /\ obj.ok
          THEN /\ json_out' = IF obj.val[1] = "[" THEN obj.elems ELSE <<>>
               /\ json_pc' = "done"
          ELSE /\ json_pc' = "dict"
               /\ UNCHANGED json_out
    /\ UNCHANGED <<runVars, splitVars, utilVars, json_str>>

\* the span from the first "{" to the last "}": a dict that parses is returned
\* in a list of one element; otherwise the empty list is returned
JsonTryDict ==
    /\ json_pc = "dict"
    /\ LET cand == Candidate(Unfence(json_str), "{", "}")
           obj == json_loads(cand)
       IN json_out' = IF cand # <<>> /\ obj.ok /\ obj.val[1] = "{" THEN <<obj.val>>
                      ELSE <<>>
    /\ json_pc' = "done"
    /\ UNCHANGED <<runVars, splitVars, utilVars, json_str>>

NextJson ==
    \/ JsonEnter
    \/ JsonTryList
    \/ JsonTryDict

SpecJson == InitJson /\ [][NextJson]_vars

\* C20: a string whose text without fences and outer white space is one JSON
\* value gives that value (a list as it is, an object as the one element of a
\* list), also when the object has members that are arrays; and a string of
\* which neither the whole text nor the span of its brackets nor the span of
\* its braces parses gives the empty list
C20_ParserOrder ==
    (json_pc = "done" /\ IsStr(json_str))
    => LET text == Unfence(json_str)
           whole == json_loads(text)
           in_brackets == Candidate(text, "[", "]")
           in_braces == Candidate(text, "{", "}")
       IN /\ (whole.ok /\ whole.val[1] = "{") => json_out = <<whole.val>>
          /\ (whole.ok /\ whole.val[1] = "[") => json_out = whole.elems
          /\ (~whole.ok /\ ~json_loads(in_brackets).ok /\ ~json_loads(in_braces).ok)
                => json_out = <<>>

(***************************************************************************)
(* normalize_string run on its own.  The first argument is any short       *)
(* string, or None; the second is made from the first by inserting and     *)
(* deleting ignored characters and by changing the case of letters.  Both  *)
(* are keyed, then the key of the first is keyed again.                    *)
(***************************************************************************)
MaxNormLen == 3

Ignored == {Space, WideSpace} \cup Parens

Letters == {"A", "a", "B", "b"}

NormAlphabet == {Space, Tab, "U+FF08", "A", "b"}

NormStrings(n) == UNION {[1..k -> NormAlphabet] : k \in 0..n}

NormInputs == NormStrings(MaxNormLen) \cup {NoneVal}

InsertAt(text, i, c) == SubSeq(text, 1, i) \o <<c>> \o SubSeq(text, i + 1, Len(text))

DeleteAt(text, i) == SubSeq(text, 1, i - 1) \o SubSeq(text, i + 1, Len(text))

InitNorm ==
    /\ api_key = FALSE
    /\ targets = <<>>
    /\ max_pages = 1
    /\ link_limit_per_page = 1
    /\ max_articles_total = 1
    /\ IdleRun
    /\ IdleSplit
    /\ IdleJson
    /\ IdleDate
    /\ IdleFilter
    /\ IdleNext
    /\ norm_x \in NormInputs
    /\ norm_y = norm_x
    /\ norm_kx = <<>>
    /\ norm_ky = <<>>
    /\ norm_kk = <<>>
    /\ norm_pc = "input"

\* the second argument gets one more ignored character
NormInsert(i, c) ==
    /\ norm_pc = "input"
    /\ IsStr(norm_y)
    /\ Len(norm_y) < MaxNormLen
    /\ i \in 0..Len(norm_y)
    /\ c \in Ignored
    /\ norm_y' = InsertAt(norm_y, i, c)
    /\ UNCHANGED <<runVars, splitVars, jsonVars, dateVars, filterVars, nextVars, norm_x, norm_kx, norm_ky, norm_kk,
                   norm_pc>>

\* the second argument loses one ignored character
NormDelete(i) ==
    /\ norm_pc = "input"
    /\ IsStr(norm_y)
    /\ i \in 1..Len(norm_y)
    /\ norm_y[i] \in Ignored
    /\ norm_y' = DeleteAt(norm_y, i)
    /\ UNCHANGED <<runVars, splitVars, jsonVars, dateVars, filterVars, nextVars, norm_x, norm_kx, norm_ky, norm_kk,
                   norm_pc>>

\* one letter of the second argument changes its case
NormRecase(i, c) ==
    /\ norm_pc = "input"
    /\ IsStr(norm_y)
    /\ i \in 1..Len(norm_y)
    /\ norm_y[i] \in Letters
    /\ c \in Letters \ {norm_y[i]}
    /\ Lower(c) = Lower(norm_y[i])
    /\ norm_y' = [norm_y EXCEPT ![i] = c]
    /\ UNCHANGED <<runVars, splitVars, jsonVars, dateVars, filterVars, nextVars, norm_x, norm_kx, norm_ky, norm_kk,
                   norm_pc>>

\* normalize_string(x) and normalize_string(y)
NormCall ==
    /\ norm_pc = "input"
    /\ norm_kx' = normalize_string(norm_x)
    /\ norm_ky' = normalize_string(norm_y)
    /\ norm_pc' = "keyed"
    /\ UNCHANGED <<runVars, splitVars, jsonVars, dateVars, filterVars, nextVars, norm_x, norm_y, norm_kk>>

\* normalize_string(normalize_string(x))
NormAgain ==
    /\ norm_pc = "keyed"
    /\ norm_kk' = normalize_string(norm_kx)
    /\ norm_pc' = "rekeyed"
    /\ UNCHANGED <<runVars, splitVars, jsonVars, dateVars, filterVars, nextVars, norm_x, norm_y, norm_kx, norm_ky>>

NextNorm ==
    \/ \E i \in 0..MaxNormLen : \E c \in Ignored : NormInsert(i, c)
    \/ \E i \in 1..MaxNormLen : NormDelete(i)
    \/ \E i \in 1..MaxNormLen : \E c \in Letters : NormRecase(i, c)
    \/ NormCall
    \/ NormAgain

SpecNorm == InitNorm /\ [][NextNorm]_vars

\* C21: the key of a key is that key; two strings that differ only in ASCII
\* and full-width spaces, in the four parentheses and in letter case have the
\* same key; and the key of a value that is no string is the empty string
C21_NormalizeIdempotent ==
    /\ norm_pc = "rekeyed" => norm_kk = norm_kx
    /\ norm_pc \in {"keyed", "rekeyed"} => norm_ky = norm_kx
    /\ (norm_pc \in {"keyed", "rekeyed"} /\ ~IsStr(norm_x)) => norm_kx = <<>>

\* a string with a tab inside and ignored characters at its ends, and a
\* second one of another length and another case, keyed twice
C21_Witness ==
    /\ norm_pc = "rekeyed"
    /\ IsStr(norm_x)
    /\ norm_kx # <<>>
    /\ norm_x # norm_kx
    /\ Len(norm_y) # Len(norm_x)
    /\ LowerStr(norm_y) # norm_y
    /\ \E i \in 1..Len(norm_x) : norm_x[i] = Tab

(***************************************************************************)
(* normalize_date.  The three regular expressions have the form            *)
(*   (\d{4}) s1 (\d{1,2}) s2 (\d{1,2}) close                               *)
(* where s1 and s2 are sets of separators and close is the set of          *)
(* characters one of which must follow the day (empty: nothing must).      *)
(***************************************************************************)
Nen == "U+5E74"
Gatsu == "U+6708"
Nichi == "U+65E5"
Wave == "U+301C"

DigitChars == {"0", "1", "2", "5", "8"}

\* the character at position i, or a value that is no character
At(text, i) == IF i \in 1..Len(text) THEN text[i] ELSE "EOS"

\* the characters at positions a..b
Slice(text, a, b) == [k \in 1..(b - a + 1) |-> At(text, a + k - 1)]

IsoPattern == [s1 |-> {"-", "/"}, s2 |-> {"-", "/"}, close |-> {}]
KanjiPattern == [s1 |-> {Nen}, s2 |-> {Gatsu}, close |-> {Nichi}]
SlashPattern == [s1 |-> {"/"}, s2 |-> {"/"}, close |-> {}]

\* the match of a pattern that starts at position i: \d{1,2} takes two digits
\* when it can, and taking one digit instead never helps, since the next
\* character is a digit then
MatchAt(text, i, pat) ==
    LET mlen == IF At(text, i + 6) \in DigitChars THEN 2 ELSE 1
        j == i + 6 + mlen
        dlen == IF At(text, j + 1) \in DigitChars THEN 2 ELSE 1
    IN [ok |-> /\ \A k \in i..(i + 3) : At(text, k) \in DigitChars
               /\ At(text, i + 4) \in pat.s1
               /\ At(text, i + 5) \in DigitChars
               /\ At(text, i + 5 + mlen) \in pat.s2
               /\ At(text, j) \in DigitChars
               /\ pat.close # {} => At(text, j + dlen) \in pat.close,
        y |-> Slice(text, i, i + 3),
        mo |-> Slice(text, i + 5, i + 4 + mlen),
        d |-> Slice(text, j, j + dlen - 1),
        end |-> j + dlen + (IF pat.close # {} THEN 1 ELSE 0)]

\* re.search: the leftmost match, or 0
Search(text, pat) ==
    LET starts == {i \in 1..Len(text) : MatchAt(text, i, pat).ok}
    IN IF starts = {} THEN 0 ELSE CHOOSE i \in starts : \A k \in starts : i <= k

\* str.zfill(2) of one or two digits
ZFill2(digits) == IF Len(digits) < 2 THEN <<"0">> \o digits ELSE digits

KanjiDate(m) == m.y \o <<Nen>> \o ZFill2(m.mo) \o <<Gatsu>> \o ZFill2(m.d) \o <<Nichi>>

SlashDate(m) == m.y \o <<"/">> \o ZFill2(m.mo) \o <<"/">> \o ZFill2(m.d)

RECURSIVE SubFrom(_, _, _)
\* re.sub from position i on: every match that does not overlap an earlier one
\* is replaced, all other characters are copied
SubFrom(text, i, pat) ==
    IF i > Len(text) THEN <<>>
    ELSE LET m == MatchAt(text, i, pat)
         IN IF m.ok
            THEN (IF pat.close # {} THEN KanjiDate(m) ELSE SlashDate(m))
                 \o SubFrom(text, m.end, pat)
            ELSE <<text[i]>> \o SubFrom(text, i + 1, pat)

Sub(text, pat) == SubFrom(text, 1, pat)

\* lines 77-82: the value returned when the ISO check matches
IsoResult(t) ==
    LET m == MatchAt(t, Search(t, IsoPattern), IsoPattern)
    IN IF \E k \in 1..Len(t) : t[k] = "/" THEN SlashDate(m) ELSE KanjiDate(m)

(***************************************************************************)
(* normalize_date run on its own, on texts that hold up to MaxDates dates  *)
(* joined by a wave dash, with or without text around them, and on texts   *)
(* that hold no date.                                                      *)
(***************************************************************************)
MaxDates == 2

Year == <<"2", "0", "2", "5">>
Months == {<<"8">>, <<"1", "2">>}
Days == {<<"5">>, <<"1", "0">>}

Dates ==
    {Year \o <<sep[1]>> \o mo \o <<sep[2]>> \o d \o sep[3] :
        sep \in {<<Nen, Gatsu, <<Nichi>> >>, <<"/", "/", <<>> >>, <<"-", "-", <<>> >>},
        mo \in Months, d \in Days}

RECURSIVE DateRanges(_)
\* n dates joined by wave dashes
DateRanges(n) ==
    IF n = 1 THEN Dates
    ELSE {r \o <<Wave>> \o d : r \in DateRanges(n - 1), d \in Dates}

TextsAround == {<<>>, <<"x">>, <<Space>>, <<Wave>>}

PlainTexts == {<<>>, <<"x">>, <<"8", "/", "5", Wave>>, <<Space, "x", Space>>,
               <<"8", Gatsu, "5", Nichi>>}

DateInputs ==
    {before \o r \o after :
        before \in TextsAround, after \in TextsAround,
        r \in UNION {DateRanges(n) : n \in 1..MaxDates}}
    \cup PlainTexts \cup {NoneVal}

InitDate ==
    /\ api_key = FALSE
    /\ targets = <<>>
    /\ max_pages = 1
    /\ link_limit_per_page = 1
    /\ max_articles_total = 1
    /\ IdleRun
    /\ IdleSplit
    /\ IdleJson
    /\ IdleNorm
    /\ IdleFilter
    /\ IdleNext
    /\ date_text \in DateInputs
    /\ date_t = <<>>
    /\ date_out = <<>>
    /\ date_pc = "call"

\* "if not text or not isinstance(text, str): return ''", else t = text.strip()
DateEnter ==
    /\ date_pc = "call"
    /\ IF ~IsStr(date_text) \/ date_text = <<>>
       THEN /\ date_pc' = "done"
            /\ UNCHANGED date_t
       ELSE /\ date_pc' = "iso"
            /\ date_t' = Strip(date_text)
    /\ date_out' = <<>>
    /\ UNCHANGED <<runVars, splitVars, jsonVars, normVars, filterVars, nextVars, date_text>>

\* the ISO format check: a match ends the call with the one date it found
DateIso ==
    /\ date_pc = "iso"
    /\ IF Search(date_t, IsoPattern) # 0
       THEN /\ date_out' = IsoResult(date_t)
            /\ date_pc' = "done"
       ELSE /\ date_pc' = "kanji"
            /\ UNCHANGED date_out
    /\ UNCHANGED <<runVars, splitVars, jsonVars, normVars, filterVars, nextVars, date_text, date_t>>

\* t = re.sub(<year, month, day in kanji>, rep_ymd, t)
DateKanji ==
    /\ date_pc = "kanji"
    /\ date_t' = Sub(date_t, KanjiPattern)
    /\ date_pc' = "slash"
    /\ UNCHANGED <<runVars, splitVars, jsonVars, normVars, filterVars, nextVars, date_text, date_out>>

\* t = re.sub(<year/month/day>, ..., t); return t.strip()
DateSlash ==
    /\ date_pc = "slash"
    /\ date_out' = Strip(Sub(date_t, SlashPattern))
    /\ date_t' = Sub(date_t, SlashPattern)
    /\ date_pc' = "done"
    /\ UNCHANGED <<runVars, splitVars, jsonVars, normVars, filterVars, nextVars, date_text>>

NextDate ==
    \/ DateEnter
    \/ DateIso
    \/ DateKanji
    \/ DateSlash

SpecDate == InitDate /\ [][NextDate]_vars

DashPattern == [s1 |-> {"-"}, s2 |-> {"-"}, close |-> {}]

RECURSIVE PadFrom(_, _)
\* the text from position i on, with the month and the day of every date of
\* the three shapes padded with a zero to two digits and all else as it is
PadFrom(text, i) ==
    IF i > Len(text) THEN <<>>
    ELSE LET shapes == {pat \in {KanjiPattern, SlashPattern, DashPattern} :
                            MatchAt(text, i, pat).ok}
         IN IF shapes = {} THEN <<text[i]>> \o PadFrom(text, i + 1)
            ELSE LET m == MatchAt(text, i, CHOOSE pat \in shapes : TRUE)
                 IN m.y \o <<text[i + 4]>> \o ZFill2(m.mo)
                    \o <<text[i + 5 + Len(m.mo)]>> \o ZFill2(m.d)
                    \o SubSeq(text, i + 6 + Len(m.mo) + Len(m.d), m.end - 1)
                    \o PadFrom(text, m.end)

PaddedInPlace(text) == PadFrom(text, 1)

\* C22: the result is the argument, without white space at its ends, with the
\* month and the day of every date of the shapes YYYY(nen)M(gatsu)D(nichi),
\* YYYY/M/D and YYYY-M-D padded to two digits and every other character kept
\* (range separators, a second date, words before and after); a text without
\* a date is returned as it is; the empty string and None give the empty string
C22_DateRewrittenInPlace ==
    date_pc = "done"
    => date_out = IF ~IsStr(date_text) \/ date_text = <<>> THEN <<>>
                  ELSE PaddedInPlace(Strip(date_text))

(***************************************************************************)
(* Properties of stage 1: network locations.                               *)
(***************************************************************************)
\* C23: every listing URL fetched for a target has the network location of
\* the target's seed URL (a next-page candidate on another site is not
\* followed), and every article URL returned for a listing page, hence every
\* one collected, has the network location of the page it was found on
C23_SameNetloc ==
    /\ [](\A i \in 1..Len(listing_fetches) :
             listing_fetches[i].url.netloc = targets[listing_fetches[i].t].url.netloc)
    /\ [][\A i \in (Len(discovered) + 1)..Len(discovered') :
             /\ discovered'[i][1].netloc = current_url.netloc
             /\ current_url = listing_fetches[Len(listing_fetches)].url]_vars
    /\ [](\A i \in 1..Len(collected) :
             \E j \in 1..Len(listing_fetches) :
                /\ collected[i][1].netloc = listing_fetches[j].url.netloc
                /\ collected[i][2] = targets[listing_fetches[j].t].label)

\* the first page of a PRTIMES target was parsed, gave no article link and
\* no next page although a second page was allowed: of the pages served, that
\* is the one whose next-page link and whose article link lead off the site
C23_Witness ==
    /\ pc = "crawl_end"
    /\ status = "collected"
    /\ max_pages = 2
    /\ page_num = 1
    /\ Len(listing_fetches) = 1
    /\ listing_fetches[1].url.netloc = PrtimesNetloc
    /\ current_url = listing_fetches[1].url
    /\ discovered = <<>>

(***************************************************************************)
(* is_article_url run on its own, on a URL and any rule or None, and the   *)
(* head of an iteration of the article loop run on that URL: the rule of   *)
(* the URL is looked up, a URL that fails the filter is skipped, any other *)
(* goes on to fetch_html.                                                  *)
(***************************************************************************)
FilterPaths ==
    {<<>>, L1, L3, A1, Denied, <<"/RANKING", "/main/html/rd/p/", "1">>,
     <<"/x", "/main/html/rd/p/", "1">>, <<"/news/", "digits">>, <<"/news/">>,
     <<"/login", "/news/", "digits">>}

FilterUrls ==
    {Url(netloc, path) : netloc \in {PrtimesNetloc, AtpressNetloc, OtherNetloc},
                         path \in FilterPaths}

FilterRules == Range(SITE_RULES) \cup {NoRule}

InitFilter ==
    /\ api_key = FALSE
    /\ targets = <<>>
    /\ max_pages = 1
    /\ link_limit_per_page = 1
    /\ max_articles_total = 1
    /\ IdleRun
    /\ IdleSplit
    /\ IdleJson
    /\ IdleNorm
    /\ IdleDate
    /\ IdleNext
    /\ filter_url \in FilterUrls
    /\ filter_rule \in FilterRules
    /\ filter_out = FALSE
    /\ filter_pc = "call"

\* is_article_url(url, rule)
FilterCall ==
    /\ filter_pc = "call"
    /\ filter_out' = is_article_url(filter_url, filter_rule)
    /\ filter_pc' = "returned"
    /\ UNCHANGED <<runVars, splitVars, jsonVars, normVars, dateVars, nextVars,
                   filter_url, filter_rule>>

\* rule = get_site_rule(article_url); "if not is_article_url(article_url, rule):
\* non_article_skipped += 1; continue", else fetch_html(session, article_url)
FilterArticle ==
    /\ filter_pc = "call"
    /\ filter_rule' = get_site_rule(filter_url)
    /\ filter_out' = is_article_url(filter_url, get_site_rule(filter_url))
    /\ filter_pc' = IF ~is_article_url(filter_url, get_site_rule(filter_url))
                    THEN "skipped" ELSE "fetch"
    /\ UNCHANGED <<runVars, splitVars, jsonVars, normVars, dateVars, nextVars, filter_url>>

NextFilter ==
    \/ FilterCall
    \/ FilterArticle

SpecFilter == InitFilter /\ [][NextFilter]_vars

DenyPrefixed(url, rule) == \E p \in rule.deny_path_prefixes : IsPrefix(p, url.path)

MatchesPattern(url, rule) == IsPrefix(rule.article_path_allow, url.path)

\* C24: with a rule, a URL whose path starts with a deny prefix of the rule is
\* no article, whether or not the path matches the article pattern, and any
\* other URL is an article exactly when its path matches the pattern; with no
\* rule every URL is an article; and the article loop goes on to fetch a URL
\* only when the URL is an article in this sense under the rule of its site
C24_ArticleFilter ==
    /\ (filter_pc = "returned" /\ filter_rule # NoRule) =>
          /\ DenyPrefixed(filter_url, filter_rule) => ~filter_out
          /\ ~DenyPrefixed(filter_url, filter_rule)
                => (filter_out <=> MatchesPattern(filter_url, filter_rule))
    /\ (filter_pc = "returned" /\ filter_rule = NoRule) => filter_out
    /\ filter_pc = "fetch" =>
          \/ get_site_rule(filter_url) = NoRule
          \/ /\ ~DenyPrefixed(filter_url, get_site_rule(filter_url))
             /\ MatchesPattern(filter_url, get_site_rule(filter_url))

\* a URL of a site with a rule whose path holds the article pattern behind a
\* deny prefix was judged to be no article
C24_Witness ==
    /\ filter_pc = "returned"
    /\ filter_rule # NoRule
    /\ filter_rule = get_site_rule(filter_url)
    /\ DenyPrefixed(filter_url, filter_rule)
    /\ \E k \in 1..Len(filter_url.path) :
          IsPrefix(filter_rule.article_path_allow,
                   SubSeq(filter_url.path, k, Len(filter_url.path)))
    /\ ~filter_out

(***************************************************************************)
(* find_next_page_url run on its own, on pages with or without a link      *)
(* rel=next and an anchor rel=next and with up to MaxAnchors anchors, as   *)
(* the crawl calls it: with the rule of the site of the page.              *)
(***************************************************************************)
MaxAnchors == 2

NextHrefs == {NoHref, Rel(L2), Href("abs", OtherNetloc, L2), Href("js", <<>>, <<>>)}

NextAnchors ==
    {Anchor(Rel(A1), ""), Anchor(Rel(L3), "Next"), Anchor(Rel(L2), "NEXT"),
     Anchor(Href("abs", OtherNetloc, L3), "More"), ClassAnchor(Rel(L2), "", "Next")}

AnchorLists == UNION {[1..k -> NextAnchors] : k \in 0..MaxAnchors}

NextSoups == [link_next : NextHrefs, a_next : NextHrefs, anchors : AnchorLists]

InitNext ==
    /\ api_key = FALSE
    /\ targets = <<>>
    /\ max_pages = 1
    /\ link_limit_per_page = 1
    /\ max_articles_total = 1
    /\ IdleRun
    /\ IdleSplit
    /\ IdleJson
    /\ IdleNorm
    /\ IdleDate
    /\ IdleFilter
    /\ next_soup \in NextSoups
    /\ next_cur \in {Url(PrtimesNetloc, L1), Url(OtherNetloc, L1)}
    /\ next_rule = get_site_rule(next_cur)
    /\ next_out = NoUrl
    /\ next_pc = "call"

\* find_next_page_url(soup, current_url, rule)
NextCall ==
    /\ next_pc = "call"
    /\ next_out' = find_next_page_url(next_soup, next_cur, next_rule)
    /\ next_pc' = "returned"
    /\ UNCHANGED <<runVars, splitVars, jsonVars, normVars, dateVars, filterVars,
                   next_soup, next_cur, next_rule>>

NextNext ==
    \/ NextCall

SpecNext == InitNext /\ [][NextNext]_vars

\* the hint tokens of a rule, or the generic ones
HintTokens(rule) ==
    IF rule = NoRule THEN DefaultHintTokens ELSE rule.listing_next_hint_tokens

\* a usable href that stays on the site of the page
OnSite(href, cur) == is_valid_href(href) /\ urljoin(cur, href).netloc = cur.netloc

\* C25: the value returned is the first candidate on the site of the page in
\* the order (1) the link rel=next, (2) the anchor rel=next, (3) the first
\* anchor whose visible text or class attribute is a hint token of the rule
\* (a generic token without a rule); without such a candidate it is None
C25_NextPagePriority ==
    next_pc = "returned" =>
        LET hinted == {k \in 1..Len(next_soup.anchors) :
                          /\ \/ next_soup.anchors[k].text \in HintTokens(next_rule)
                             \/ next_soup.anchors[k].class \in HintTokens(next_rule)
                          /\ OnSite(next_soup.anchors[k].href, next_cur)}
        IN next_out =
              IF OnSite(next_soup.link_next, next_cur)
              THEN urljoin(next_cur, next_soup.link_next)
              ELSE IF OnSite(next_soup.a_next, next_cur)
              THEN urljoin(next_cur, next_soup.a_next)
              ELSE IF hinted # {}
              THEN urljoin(next_cur,
                           next_soup.anchors[CHOOSE k \in hinted :
                                                \A j \in hinted : k <= j].href)
              ELSE NoUrl

(***************************************************************************)
(* Properties of stage 2: the outcomes of the articles.                    *)
(***************************************************************************)
Outcomes == <<non_article_skipped, failed_articles, short_text_skipped, llm_articles>>

OutcomeSum(o) == o[1] + o[2] + o[3] + o[4]

\* C26: the article loop takes the articles of collected one by one, each
\* once; taking an article adds one to exactly one of the three skip and
\* failure counters or hands the article to the LLM extraction, and no other
\* step changes these counts; so the four counts add up to the number of
\* articles taken so far, and to the length of collected at the end
C26_ArticleAccounting ==
    /\ [](/\ ai <= Len(collected)
          /\ pc \in {"article", "done"} => OutcomeSum(Outcomes) = ai
          /\ pc \in {"llm", "dedup"} => OutcomeSum(Outcomes) = ai + 1
          /\ pc = "done" => OutcomeSum(Outcomes) = Len(collected))
    /\ [][/\ ai' \in {ai, ai + 1}
          /\ \A k \in 1..4 : Outcomes'[k] \in {Outcomes[k], Outcomes[k] + 1}
          /\ OutcomeSum(Outcomes') = OutcomeSum(Outcomes) + (IF TakesArticle THEN 1 ELSE 0)
          /\ pc = "done" => (ai' = ai /\ Outcomes' = Outcomes)]_vars

\* a run of two articles has ended: one was handed to the LLM extraction, the
\* other was not
C26_Witness ==
    /\ pc = "done"
    /\ Len(collected) = 2
    /\ llm_articles = 1
    /\ failed_articles + short_text_skipped = 1

(***************************************************************************)
(* Properties of stage 2: the output and the fingerprints.                 *)
(***************************************************************************)
\* what one step adds to the output list and to the two duplicate counters
DedupDelta ==
    <<Len(extracted_all') - Len(extracted_all),
      skipped_duplicate_csv' - skipped_duplicate_csv,
      skipped_duplicate_run' - skipped_duplicate_run>>

\* C27: the output list has as many records as run_fingerprints has elements,
\* the fingerprints of its records are the elements of run_fingerprints, none
\* of them is in existing_fingerprints, and every record has a name; an item
\* offered to the dedup step whose normalized name is not empty adds one to
\* exactly one of the output list, the CSV-duplicate counter and the in-run
\* duplicate counter, and no other step changes any of the three
C27_OutputFingerprints ==
    /\ [](/\ Len(extracted_all) = Cardinality(run_fingerprints)
          /\ {Fingerprint(extracted_all[i]) : i \in 1..Len(extracted_all)}
                = run_fingerprints
          /\ run_fingerprints \cap existing_fingerprints = {}
          /\ \A i \in 1..Len(extracted_all) : Strip(extracted_all[i].name) # <<>>)
    /\ [][IF pc = "dedup"
          THEN normalize_string(Head(items).name) # <<>>
                  => DedupDelta \in {<<1, 0, 0>>, <<0, 1, 0>>, <<0, 0, 1>>}
          ELSE DedupDelta = <<0, 0, 0>>]_vars

\* items were offered with the three results: one is in the output, one was
\* found in the CSV, one was found in the output of the run
C27_Witness ==
    /\ Len(extracted_all) >= 1
    /\ skipped_duplicate_csv >= 1
    /\ skipped_duplicate_run >= 1
    /\ existing_fingerprints # {}

====
